---- MODULE Spec2Model ----
(***************************************************************************)
(* A model of the stylecs attribute registry: the sorted store `Object`    *)
(* (src/src/object.rs), the type-erased wrapper `AnyComponent`             *)
(* (src/src/any.rs), the component contract (src/src/components.rs) and    *)
(* the `Style` facade (src/src/style.rs).                                  *)
(*                                                                         *)
(* Indices are the 0-based indices of the Rust code; a Vec is a TLA+       *)
(* sequence, so element i of a Vec v is v[i + 1].  An Option is a sequence *)
(* of length at most one (None == <<>>, Some(x) == <<x>>).  An interned    *)
(* Identifier is the rank of its pointer among the pooled strings, a       *)
(* natural number: the store only ever compares the pointers.              *)
(***************************************************************************)
EXTENDS Integers, Sequences, FiniteSets, TLC

VARIABLES
    obj,     \* an Object (the store `self` / `s`)
    cl,      \* a second Object (a clone of obj, or the `other` of a merge)
    style,   \* a Style (`self`)
    parent,  \* a second Style (`other` / `parent`)
    last,    \* the last operation: its name, inputs, result and pre-state
    steps,   \* number of store operations performed so far
    pool,    \* the strings pooled in IDENTIFIERS, in the order they were pooled
    rule,    \* a Rule of the style sheet, as its builder left it
    sheet,   \* a StyleSheet (`self`)
    other_sheet,  \* a second StyleSheet (`other`)
    loop     \* the loop of a find_key or merge_with_filter call in progress

vars == <<obj, cl, style, parent, last, steps, pool, rule, sheet, other_sheet,
          loop>>

---------------------------------------------------------------------------
(* Bounds of the model *)

\* Authority tokens 0 .. NumAuthorities - 1 are available to store keys.
NumAuthorities == 3
\* Local-name tokens 0 .. NumLocalNames - 1 are available to store keys.
NumLocalNames == 6
\* Operations applied to the stores of SpecObject after construction.
MaxOps == 2
\* The number of keys of the largest store find_key and the merge walk.
MaxKeys == 40

---------------------------------------------------------------------------
(* Option *)

None == <<>>
Some(x) == <<x>>
IsSome(o) == Len(o) = 1
Unwrap(o) == o[1]
\* Option::or
OptionOr(a, b) == IF IsSome(a) THEN a ELSE b

---------------------------------------------------------------------------
(* Identifiers and Names (src/src/names.rs) *)

\* The pooled string "_" of the private authority.
PrivateToken == 0
GooeyToken == 1

MkName(a, n) == [authority |-> a, name |-> n]

\* The Names a store key may take in the model.
AllNames == [authority : 0 .. (NumAuthorities - 1), name : 0 .. (NumLocalNames - 1)]

\* Ord::cmp on two pointers.
PtrCmp(a, b) == IF a < b THEN "Less" ELSE IF a = b THEN "Equal" ELSE "Greater"

\* impl PartialOrd<Name> for Key: the authority pointers first, the name
\* pointers when the authorities are the same pooled string.
KeyPartialCmp(key, other) ==
    LET byAuthority == PtrCmp(key.key.authority, other.authority)
    IN  IF byAuthority = "Equal"
        THEN PtrCmp(key.key.name, other.name)
        ELSE byAuthority

\* impl Ord for Key.
KeyCmp(key, other) == KeyPartialCmp(key, other.key)

\* The storage order on Names (the order KeyPartialCmp induces).
NameLess(a, b) == KeyPartialCmp([key |-> a, value_id |-> 0], b) = "Less"

---------------------------------------------------------------------------
(* Component types (src/src/components.rs, src/src/tests.rs,               *)
(* src/examples/demo.rs) and the wrapper AnyComponent (src/src/any.rs)     *)

FontSize(n) == [ty |-> "FontSize", v |-> n]
TextColor(n) == [ty |-> "TextColor", v |-> n]
NotInheritable == [ty |-> "NotInheritable", v |-> 0]
\* A component type declared with the Name of another: name = font_size.
Points(n) == [ty |-> "Points", v |-> n]
Padding(l, r, t, b) ==
    [ty |-> "Padding", v |-> [left |-> l, right |-> r, top |-> t, bottom |-> b]]
PaddingUniform(m) == Padding(Some(m), Some(m), Some(m), Some(m))
PaddingVertical(m) == Padding(None, None, Some(m), Some(m))
PaddingHorizontal(m) == Padding(Some(m), Some(m), None, None)

\* StyleComponent::name / DynamicComponent::name: a function of the type.
TypeName(ty) ==
    CASE ty = "FontSize" -> MkName(PrivateToken, 2)
      [] ty = "TextColor" -> MkName(PrivateToken, 3)
      [] ty = "NotInheritable" -> MkName(PrivateToken, 4)
      [] ty = "Padding" -> MkName(GooeyToken, 5)
      [] ty = "Points" -> MkName(PrivateToken, 2)

\* StyleComponent::inherited: false unless the type overrides it.
TypeInherited(ty) == ty \in {"FontSize", "TextColor"}

\* Mutant of PaddingMerge: a side set in other overwrites the side of self.
PaddingMergeOverwrites(self, other) ==
    [left |-> OptionOr(other.left, self.left),
     right |-> OptionOr(other.right, self.right),
     top |-> OptionOr(other.top, self.top),
     bottom |-> OptionOr(other.bottom, self.bottom)]

\* Mutant of PaddingMerge: top and bottom are filled from the wrong sides
\* of other.
PaddingMergeWrongSide(self, other) ==
    [left |-> OptionOr(self.left, other.left),
     right |-> OptionOr(self.right, other.right),
     top |-> OptionOr(self.top, other.left),
     bottom |-> OptionOr(self.bottom, other.right)]

\* Padding::merge: fills only the sides that are unset in self.
PaddingMerge(self, other) ==
    [left |-> OptionOr(self.left, other.left),
     right |-> OptionOr(self.right, other.right),
     top |-> OptionOr(self.top, other.top),
     bottom |-> OptionOr(self.bottom, other.bottom)]

\* StyleComponent::merge: the default does nothing and keeps self.
TypeMerge(ty, self, other) ==
    IF ty = "Padding" THEN PaddingMerge(self, other) ELSE self

\* AnyComponent::name
AnyName(c) == TypeName(c.ty)

\* AnyComponent::inherited
AnyInherited(c) == TypeInherited(c.ty)

\* AnyComponent::get::<T>: None when T is not the wrapped type.
AnyGet(c, ty) == IF c.ty = ty THEN Some(c) ELSE None

\* AnyComponent::clone: a new box holding a copy of the wrapped value.
AnyClone(c) == [ty |-> c.ty, v |-> c.v]

\* The value a panic leaves in place of a result.
Panicked == [ty |-> "panic", v |-> 0]

\* AnyComponent::merge_with: both sides are downcast to self's type; a
\* mismatch panics with "incorrect type".
AnyMergeWith(self, other) ==
    IF self.ty = other.ty
    THEN [ty |-> self.ty, v |-> TypeMerge(self.ty, self.v, other.v)]
    ELSE Panicked

\* Mutant of Filter: inherited_from passes a filter that accepts everything.
FilterAcceptsAll(f, c) == TRUE

\* The filters the two composition operators pass to merge_with_filter:
\* |_| true (merged_with) and AnyComponent::inherited (inherited_from).
Filter(f, c) == IF f = "all" THEN TRUE ELSE AnyInherited(c)
Filters == {"all", "inherited"}

---------------------------------------------------------------------------
(* The sorted store Object (src/src/object.rs) *)

\* find_key switches to the sequential scan once the window is this small.
ScanWindow == 16

\* Object::new / Object::with_capacity
ObjectNew == [values |-> <<>>, ordered_keys |-> <<>>]

\* Object::len
ObjLen(o) == Len(o.ordered_keys)

MkKey(k, id) == [key |-> k, value_id |-> id]

\* Result<&Key, usize>: Ok carries the index of the key found (the &Key
\* refers to that element of ordered_keys), Err the insertion index.
Ok(i) == [ok |-> TRUE, at |-> i]
Err(i) == [ok |-> FALSE, at |-> i]

\* Mutant of VecInsert: the element at index is overwritten.
VecInsertOverwrites(v, index, e) ==
    IF index < Len(v) THEN [v EXCEPT ![index + 1] = e] ELSE Append(v, e)

\* Vec::insert(index, element)
VecInsert(v, index, e) ==
    SubSeq(v, 1, index) \o <<e>> \o SubSeq(v, index + 1, Len(v))

\* Lots::push: the new value takes the next slot; its LotId is returned.
LotsPush(values, value) == [values |-> Append(values, value), id |-> Len(values) + 1]

\* The sequential scan of find_key over ordered_keys[min..max].  `index`
\* is the index enumerate() yields, counted from the start of the slice.
RECURSIVE LinearScan(_, _, _, _, _)
LinearScan(keys, needle, min, max, index) ==
    IF min + index >= max
    THEN Err(max)
    ELSE LET c == KeyPartialCmp(keys[min + index + 1], needle)
         IN  CASE c = "Less" -> LinearScan(keys, needle, min, max, index + 1)
               [] c = "Equal" -> Ok(min + index)
               [] c = "Greater" -> Err(index)

\* The loop of find_key: halve [min, max) until it holds at most
\* ScanWindow keys, then scan it.
RECURSIVE FindKeyLoop(_, _, _, _)
FindKeyLoop(keys, needle, min, max) ==
    LET delta == max - min
        midpoint == min + (delta \div 2)
        c == KeyPartialCmp(keys[midpoint + 1], needle)
    IN  IF delta <= ScanWindow
        THEN LinearScan(keys, needle, min, max, 0)
        ELSE CASE c = "Less" -> FindKeyLoop(keys, needle, midpoint + 1, max)
               [] c = "Equal" -> Ok(midpoint)
               [] c = "Greater" -> FindKeyLoop(keys, needle, min, midpoint)

\* Object::find_key
FindKey(o, needle) == FindKeyLoop(o.ordered_keys, needle, 0, Len(o.ordered_keys))

\* Mutant of ObjInsert: a replacement pushes the new value into a new slot
\* and leaves the displaced value in the arena.
ObjInsertLeavesOldValue(o, key, value) ==
    LET found == FindKey(o, key)
        value_id == o.ordered_keys[found.at + 1].value_id
        pushed == LotsPush(o.values, value)
    IN  IF found.ok
        THEN [obj |-> [values |-> pushed.values,
                       ordered_keys |->
                           [o.ordered_keys EXCEPT
                               ![found.at + 1] = MkKey(key, pushed.id)]],
              ret |-> Some(o.values[value_id])]
        ELSE [obj |-> [values |-> pushed.values,
                       ordered_keys |->
                           VecInsert(o.ordered_keys, found.at, MkKey(key, pushed.id))],
              ret |-> None]

\* Object::insert: the store after the call and the value returned.
ObjInsert(o, key, value) ==
    LET found == FindKey(o, key)
        value_id == o.ordered_keys[found.at + 1].value_id
        pushed == LotsPush(o.values, value)
    IN  IF found.ok
        THEN [obj |-> [o EXCEPT !.values[value_id] = value],
              ret |-> Some(o.values[value_id])]
        ELSE [obj |-> [values |-> pushed.values,
                       ordered_keys |->
                           VecInsert(o.ordered_keys, found.at, MkKey(key, pushed.id))],
              ret |-> None]

\* Object::get
ObjGet(o, key) ==
    LET found == FindKey(o, key)
    IN  IF found.ok
        THEN Some(o.values[o.ordered_keys[found.at + 1].value_id])
        ELSE None

\* Object::values / Object::into_values: the iterator of the arena, which
\* yields the values slot by slot.
ObjValuesIter(o) == o.values

\* impl Clone for Object: every key is re-inserted, in storage order, with
\* a clone of its value.  `i` is the index of the next key of `o`.
RECURSIVE ObjCloneFrom(_, _, _)
ObjCloneFrom(o, new_obj, i) ==
    IF i >= Len(o.ordered_keys)
    THEN new_obj
    ELSE LET key == o.ordered_keys[i + 1]
         IN  ObjCloneFrom(o,
                 ObjInsert(new_obj, key.key, AnyClone(o.values[key.value_id])).obj,
                 i + 1)

ObjClone(o) == ObjCloneFrom(o, ObjectNew, 0)

\* What one merge_with_filter call did besides changing self: the entries
\* of other the filter was evaluated on, the Names the merge rule was
\* invoked for (both in call order), and whether a merge_with panicked.
NoCalls == [filtered |-> <<>>, merged |-> <<>>, panicked |-> FALSE]

LogFilter(log, key, component) ==
    [log EXCEPT !.filtered = Append(@, [key |-> key, on |-> component])]

LogMerge(log, key, result) ==
    [log EXCEPT !.merged = Append(@, key),
                !.panicked = @ \/ (result = Panicked)]

\* The final loop of Object::merge_with_filter: the entries of other from
\* other_index on are pushed at the end of self when the filter accepts
\* them.
RECURSIVE ObjMergeDrain(_, _, _, _, _)
ObjMergeDrain(self, other, f, other_index, log) ==
    IF other_index >= Len(other.ordered_keys)
    THEN [obj |-> self, log |-> log]
    ELSE LET key == other.ordered_keys[other_index + 1]
             other_component == other.values[key.value_id]
             pushed == LotsPush(self.values, AnyClone(other_component))
         IN  IF ~Filter(f, other_component)
             THEN ObjMergeDrain(self, other, f, other_index + 1,
                                LogFilter(log, key.key, other_component))
             ELSE ObjMergeDrain(
                      [values |-> pushed.values,
                       ordered_keys |->
                           Append(self.ordered_keys, MkKey(key.key, pushed.id))],
                      other, f, other_index + 1, LogFilter(log, key.key, other_component))

\* Mutant of ObjMergeStep: when both stores have the key, the merge rule is
\* invoked whatever the filter answers.
ObjMergeStepAlwaysMerges(self, other, f, self_index, other_index, log) ==
    LET self_key == self.ordered_keys[self_index + 1]
        other_key == other.ordered_keys[other_index + 1]
        other_component == other.values[other_key.value_id]
        c == KeyCmp(self_key, other_key)
        merged == AnyMergeWith(self.values[self_key.value_id], other_component)
        pushed == LotsPush(self.values, AnyClone(other_component))
    IN  CASE c = "Less" ->
                [obj |-> self, self_index |-> self_index + 1,
                 other_index |-> other_index, log |-> log]
          [] c = "Equal" ->
                [obj |-> [self EXCEPT !.values[self_key.value_id] = merged],
                 self_index |-> self_index + 1,
                 other_index |-> other_index + 1,
                 log |-> LogMerge(LogFilter(log, other_key.key, other_component),
                                  other_key.key, merged)]
          [] c = "Greater" ->
                IF ~Filter(f, other_component)
                THEN [obj |-> self, self_index |-> self_index,
                      other_index |-> other_index + 1,
                      log |-> LogFilter(log, other_key.key, other_component)]
                ELSE [obj |-> [values |-> pushed.values,
                               ordered_keys |->
                                   VecInsert(self.ordered_keys, self_index,
                                             MkKey(other_key.key, pushed.id))],
                      self_index |-> self_index + 1,
                      other_index |-> other_index + 1,
                      log |-> LogFilter(log, other_key.key, other_component)]

\* One iteration of the while loop of Object::merge_with_filter: self, the
\* two indices and the record of calls after it.
ObjMergeStep(self, other, f, self_index, other_index, log) ==
    LET self_key == self.ordered_keys[self_index + 1]
        other_key == other.ordered_keys[other_index + 1]
        other_component == other.values[other_key.value_id]
        c == KeyCmp(self_key, other_key)
        merged == AnyMergeWith(self.values[self_key.value_id], other_component)
        pushed == LotsPush(self.values, AnyClone(other_component))
    IN  CASE c = "Less" ->
                \* Self has a key that other didn't.
                [obj |-> self, self_index |-> self_index + 1,
                 other_index |-> other_index, log |-> log]
          [] c = "Equal" ->
                \* Both have the value, we might need to merge.
                IF Filter(f, other_component)
                THEN [obj |-> [self EXCEPT !.values[self_key.value_id] = merged],
                      self_index |-> self_index + 1,
                      other_index |-> other_index + 1,
                      log |-> LogMerge(LogFilter(log, other_key.key, other_component),
                                       other_key.key, merged)]
                ELSE [obj |-> self, self_index |-> self_index + 1,
                      other_index |-> other_index + 1,
                      log |-> LogFilter(log, other_key.key, other_component)]
          [] c = "Greater" ->
                \* Other has a value that self doesn't.
                IF ~Filter(f, other_component)
                THEN [obj |-> self, self_index |-> self_index,
                      other_index |-> other_index + 1,
                      log |-> LogFilter(log, other_key.key, other_component)]
                ELSE [obj |-> [values |-> pushed.values,
                               ordered_keys |->
                                   VecInsert(self.ordered_keys, self_index,
                                             MkKey(other_key.key, pushed.id))],
                      self_index |-> self_index + 1,
                      other_index |-> other_index + 1,
                      log |-> LogFilter(log, other_key.key, other_component)]

\* Mutant of ObjMergeWalk: every entry of other goes through the final loop,
\* which pushes the accepted ones at the end of self.
ObjMergeWalkOnlyDrains(self, other, f, self_index, other_index, log) ==
    ObjMergeDrain(self, other, f, other_index, log)

\* The while loop of Object::merge_with_filter: the simultaneous walk over
\* the two key arrays, then the final loop over what is left of other.
RECURSIVE ObjMergeWalk(_, _, _, _, _, _)
ObjMergeWalk(self, other, f, self_index, other_index, log) ==
    IF self_index < ObjLen(self) /\ other_index < ObjLen(other)
    THEN LET s == ObjMergeStep(self, other, f, self_index, other_index, log)
         IN  ObjMergeWalk(s.obj, other, f, s.self_index, s.other_index, s.log)
    ELSE ObjMergeDrain(self, other, f, other_index, log)

\* Object::merge_with_filter: self after the call, and what the call did.
ObjMergeWithFilter(self, other, f) == ObjMergeWalk(self, other, f, 0, 0, NoCalls)

---------------------------------------------------------------------------
(* The loops of find_key and merge_with_filter, one iteration at a time *)

\* No call is in progress.
NoLoop == [fn |-> "none", done |-> TRUE, panicked |-> FALSE]

\* Mutant of Midpoint: delta is not halved.
MidpointUnhalved(min, delta) == min + delta

\* let midpoint = min + delta / 2
Midpoint(min, delta) == min + (delta \div 2)

\* find_key before its loop: min = 0, max = ordered_keys.len()
FindKeyBegin(o, needle) ==
    [fn |-> "find_key", keys |-> o.ordered_keys, needle |-> needle,
     min |-> 0, max |-> Len(o.ordered_keys), ret |-> None,
     done |-> FALSE, panicked |-> FALSE]

\* One iteration of the loop of find_key.  max - min underflows when
\* min > max, slicing ordered_keys[min..max] panics when max is past the
\* end, and so does indexing ordered_keys[midpoint] when midpoint is.
FindKeyIter(l) ==
    LET delta == l.max - l.min
        midpoint == Midpoint(l.min, delta)
    IN  IF l.max < l.min \/ l.max > Len(l.keys)
        THEN [l EXCEPT !.done = TRUE, !.panicked = TRUE]
        ELSE IF delta <= ScanWindow
        THEN [l EXCEPT !.done = TRUE,
                       !.ret = Some(LinearScan(l.keys, l.needle, l.min, l.max, 0))]
        ELSE IF midpoint >= Len(l.keys)
        THEN [l EXCEPT !.done = TRUE, !.panicked = TRUE]
        ELSE LET c == KeyPartialCmp(l.keys[midpoint + 1], l.needle)
             IN  CASE c = "Less" -> [l EXCEPT !.min = midpoint + 1]
                   [] c = "Equal" ->
                         [l EXCEPT !.done = TRUE, !.ret = Some(Ok(midpoint))]
                   [] c = "Greater" -> [l EXCEPT !.max = midpoint]

\* merge_with_filter before its loop: self_index = 0, other_index = 0
MergeBegin(self, other, f) ==
    [fn |-> "merge", self |-> self, other |-> other, f |-> f,
     self_index |-> 0, other_index |-> 0, log |-> NoCalls,
     done |-> FALSE, panicked |-> FALSE]

\* One iteration of the while loop of merge_with_filter or, once its
\* condition is false, the final loop over other.ordered_keys[other_index..]
\* (slicing panics when other_index is past the end).
MergeIter(l) ==
    IF l.self_index < ObjLen(l.self) /\ l.other_index < ObjLen(l.other)
    THEN LET s == ObjMergeStep(l.self, l.other, l.f, l.self_index,
                               l.other_index, l.log)
         IN  [l EXCEPT !.self = s.obj, !.self_index = s.self_index,
                       !.other_index = s.other_index, !.log = s.log]
    ELSE IF l.other_index > ObjLen(l.other)
    THEN [l EXCEPT !.done = TRUE, !.panicked = TRUE]
    ELSE LET d == ObjMergeDrain(l.self, l.other, l.f, l.other_index, l.log)
         IN  [l EXCEPT !.self = d.obj, !.log = d.log, !.done = TRUE]

---------------------------------------------------------------------------
(* The facade Style (src/src/style.rs): components is a HashMap from Name  *)
(* to AnyComponent, here a function whose domain is the set of its keys.   *)

\* Style::new / Style::default
\* An empty HashMap.
EmptyMap == [n \in {} |-> None]

StyleNew == [components |-> EmptyMap]

StyleNames(s) == DOMAIN s.components

\* Style::len
StyleLen(s) == Cardinality(StyleNames(s))

\* Mutant of HashMapInsert: an entry the map already has is kept.
HashMapInsertKeepsOld(m, k, value) ==
    [n \in (DOMAIN m) \cup {k} |-> IF n \in DOMAIN m THEN m[n] ELSE value]

\* HashMap::insert
HashMapInsert(m, k, value) ==
    [n \in (DOMAIN m) \cup {k} |-> IF n = k THEN value ELSE m[n]]

\* Mutant of StylePush: the component is stored under its local name with
\* the private authority, whatever authority its type declares.
StylePushUnderPrivateName(s, component) ==
    [components |->
        HashMapInsert(s.components,
                      MkName(PrivateToken, AnyName(component).name), component)]

\* Style::push (and Style::with): the component is wrapped and stored under
\* the Name the wrapper reports.
StylePush(s, component) ==
    [components |-> HashMapInsert(s.components, AnyName(component), component)]

\* Style::get_by_name
StyleGetByName(s, name) ==
    IF name \in StyleNames(s) THEN Some(s.components[name]) ELSE None

\* Style::get::<T>
StyleGet(s, ty) ==
    IF TypeName(ty) \in StyleNames(s)
    THEN AnyGet(s.components[TypeName(ty)], ty)
    ELSE None

\* impl Clone for Style
StyleClone(s) == [components |-> [n \in StyleNames(s) |-> AnyClone(s.components[n])]]

\* Mutant of StyleMergeStep: when both styles have the Name, the value of
\* other replaces the value of self.
StyleMergeStepRightBiased(self, other, f, type_id, log) ==
    LET in_self == type_id \in StyleNames(self)
        in_other == type_id \in StyleNames(other)
        other_component == other.components[type_id]
    IN  CASE in_self /\ in_other ->
                IF Filter(f, other_component)
                THEN [style |-> [components |->
                                    [self.components EXCEPT
                                        ![type_id] = AnyClone(other_component)]],
                      log |-> LogMerge(LogFilter(log, type_id, other_component), type_id,
                                       other_component)]
                ELSE [style |-> self, log |-> LogFilter(log, type_id, other_component)]
          [] in_self /\ ~in_other -> [style |-> self, log |-> log]
          [] ~in_self /\ in_other ->
                IF ~Filter(f, other_component)
                THEN [style |-> self, log |-> LogFilter(log, type_id, other_component)]
                ELSE [style |-> [components |->
                                    HashMapInsert(self.components, type_id,
                                                  AnyClone(other_component))],
                      log |-> LogFilter(log, type_id, other_component)]

\* One iteration of the loop of Style::merge_with_filter, for type_id.
StyleMergeStep(self, other, f, type_id, log) ==
    LET in_self == type_id \in StyleNames(self)
        in_other == type_id \in StyleNames(other)
        other_component == other.components[type_id]
        merged == AnyMergeWith(self.components[type_id], other_component)
    IN  CASE in_self /\ in_other ->
                IF Filter(f, other_component)
                THEN [style |-> [components |->
                                    [self.components EXCEPT ![type_id] = merged]],
                      log |-> LogMerge(LogFilter(log, type_id, other_component), type_id, merged)]
                ELSE [style |-> self, log |-> LogFilter(log, type_id, other_component)]
          [] in_self /\ ~in_other -> [style |-> self, log |-> log]
          [] ~in_self /\ in_other ->
                IF ~Filter(f, other_component)
                THEN [style |-> self, log |-> LogFilter(log, type_id, other_component)]
                ELSE [style |-> [components |->
                                    HashMapInsert(self.components, type_id,
                                                  AnyClone(other_component))],
                      log |-> LogFilter(log, type_id, other_component)]

\* The loop of Style::merge_with_filter over the union of the two key sets
\* taken before the loop.  A HashSet is walked in an order the hasher
\* decides; every iteration reads and writes only the entry of its own
\* type_id, so the stores reached do not depend on that order, and the
\* model walks the Names in storage order.
RECURSIVE StyleMergeLoop(_, _, _, _, _)
StyleMergeLoop(self, other, f, todo, log) ==
    IF todo = {}
    THEN [style |-> self, log |-> log]
    ELSE LET type_id == CHOOSE n \in todo : \A m \in todo : ~NameLess(m, n)
             step == StyleMergeStep(self, other, f, type_id, log)
         IN  StyleMergeLoop(step.style, other, f, todo \ {type_id}, step.log)

\* Style::merge_with_filter
StyleMergeWithFilter(self, other, f) ==
    StyleMergeLoop(self, other, f, StyleNames(self) \cup StyleNames(other), NoCalls)

\* Style::merged_with
StyleMergedWith(self, other) == StyleMergeWithFilter(self, other, "all")

\* Style::inherited_from
StyleInheritedFrom(self, parent_style) ==
    StyleMergeWithFilter(self, parent_style, "inherited")

---------------------------------------------------------------------------
(* Text (src/stylecs-shared/src/lib.rs).  A str is the sequence of its     *)
(* bytes; byte i of a str s is s[i + 1].                                   *)

\* u8::is_ascii_uppercase, u8::is_ascii_lowercase, u8::is_ascii_digit
IsAsciiUppercase(b) == b \in 65 .. 90
IsAsciiLowercase(b) == b \in 97 .. 122
IsAsciiDigit(b) == b \in 48 .. 57

\* u8::is_ascii_alphanumeric
IsAsciiAlphanumeric(b) ==
    IsAsciiUppercase(b) \/ IsAsciiLowercase(b) \/ IsAsciiDigit(b)

\* u8::to_ascii_lowercase
ToAsciiLowercase(b) == IF IsAsciiUppercase(b) THEN b + 32 ELSE b

\* Result<T, InvalidIdentifier>
InvalidIdentifier == "InvalidIdentifier"
ResultOk(x) == [ok |-> TRUE, v |-> x]
ResultErr(e) == [ok |-> FALSE, v |-> e]

\* Mutant of ValidateLoop: the digits are not accepted.
RECURSIVE ValidateLoopNoDigits(_, _)
ValidateLoopNoDigits(name, index) ==
    IF index < Len(name)
    THEN LET byte == name[index + 1]
         IN  IF IsAsciiUppercase(byte) \/ IsAsciiLowercase(byte) \/ byte = 95
             THEN ValidateLoopNoDigits(name, index + 1)
             ELSE ResultErr(InvalidIdentifier)
    ELSE ResultOk(<<>>)

\* The loop of validate_identifier, from byte `index` on.
RECURSIVE ValidateLoop(_, _)
ValidateLoop(name, index) ==
    IF index < Len(name)
    THEN LET byte == name[index + 1]
         IN  IF IsAsciiAlphanumeric(byte) \/ byte = 95
             THEN ValidateLoop(name, index + 1)
             ELSE ResultErr(InvalidIdentifier)
    ELSE ResultOk(<<>>)

\* validate_identifier
ValidateIdentifier(name) == ValidateLoop(name, 0)

\* bytes[index] = b
VecSet(v, index, b) == [v EXCEPT ![index + 1] = b]

\* The loop of pascal_case_to_snake_case: bytes is edited in place, index is
\* the byte the loop is at.
RECURSIVE PascalLoop(_, _, _)
PascalLoop(bytes, index, previous_was_upper) ==
    IF index >= Len(bytes)
    THEN ResultOk(bytes)
    ELSE LET ch == bytes[index + 1]
             is_upper == IsAsciiUppercase(ch)
             next_is_upper ==
                 /\ index + 1 < Len(bytes)
                 /\ IsAsciiUppercase(bytes[index + 2])
         IN  IF ~IsAsciiAlphanumeric(ch) /\ ch # 95
             THEN ResultErr(InvalidIdentifier)
             ELSE IF is_upper
             THEN IF previous_was_upper /\ ~next_is_upper
                  THEN PascalLoop(VecSet(VecInsert(bytes, index, 95), index + 1,
                                         ToAsciiLowercase(ch)),
                                  index + 2, is_upper)
                  ELSE PascalLoop(VecSet(bytes, index, ToAsciiLowercase(ch)),
                                  index + 1, is_upper)
             ELSE IF next_is_upper
                  THEN PascalLoop(VecInsert(bytes, index + 1, 95), index + 2,
                                  is_upper)
                  ELSE PascalLoop(bytes, index + 1, is_upper)

\* pascal_case_to_snake_case
PascalCaseToSnakeCase(name) == PascalLoop(name, 0, FALSE)

---------------------------------------------------------------------------
(* The pool of interned strings, Identifier and Name (src/src/names.rs).   *)
(* A pooled string is known by its position in the pool: two GlobalStrings *)
(* are the same pooled string exactly when their positions are equal.      *)

\* StringPool::new
StringPoolNew == <<>>

\* Mutant of PoolGet: a new entry is pooled on every call.
PoolGetAlwaysAdds(p, s) == [pool |-> Append(p, s), token |-> Len(p)]

\* StringPool::get / StringPool::get_static: the pooled string equal to s,
\* pooled now if the pool has none.
PoolGet(p, s) ==
    IF \E i \in 1 .. Len(p) : p[i] = s
    THEN [pool |-> p, token |-> (CHOOSE i \in 1 .. Len(p) : p[i] = s) - 1]
    ELSE [pool |-> Append(p, s), token |-> Len(p)]

\* The str "_" of PRIVATE.
PrivateText == <<95>>

\* Identifier::private: the static PRIVATE, pooled at its first use.
IdentifierPrivate(p) == PoolGet(p, PrivateText)

\* Identifier::validate
IdentifierValidate(name) == ValidateIdentifier(name)

\* Identifier::new
IdentifierNew(p, name) ==
    LET verdict == ValidateIdentifier(name)
        pooled == PoolGet(p, name)
    IN  IF verdict.ok
        THEN [pool |-> pooled.pool, ret |-> ResultOk(pooled.token)]
        ELSE [pool |-> p, ret |-> verdict]

\* impl Deref for Identifier: the text of a pooled string.
IdentifierText(p, token) == p[token + 1]

\* Mutant of NameNew: the authority is pooled without being validated.
NameNewUncheckedAuthority(p, authority, name) ==
    LET a == PoolGet(p, authority)
        n == IdentifierNew(a.pool, name)
    IN  IF ~n.ret.ok THEN [pool |-> n.pool, ret |-> n.ret]
        ELSE [pool |-> n.pool, ret |-> ResultOk(MkName(a.token, n.ret.v))]

\* Name::new, both arguments given as text: the authority is validated and
\* pooled first, `?` returns at the first error.
NameNew(p, authority, name) ==
    LET a == IdentifierNew(p, authority)
        n == IdentifierNew(a.pool, name)
    IN  IF ~a.ret.ok THEN [pool |-> a.pool, ret |-> a.ret]
        ELSE IF ~n.ret.ok THEN [pool |-> n.pool, ret |-> n.ret]
        ELSE [pool |-> n.pool, ret |-> ResultOk(MkName(a.ret.v, n.ret.v))]

\* Mutant of NameDisplay: the authority is written for every Name.
NameDisplayAlwaysQualified(p, n) ==
    [pool |-> IdentifierPrivate(p).pool,
     text |-> IdentifierText(p, n.authority) \o <<58, 58>>
              \o IdentifierText(p, n.name)]

\* impl Display for Name
NameDisplay(p, n) ==
    LET private == IdentifierPrivate(p)
    IN  [pool |-> private.pool,
         text |-> IF private.token # n.authority
                  THEN IdentifierText(p, n.authority) \o <<58, 58>>
                       \o IdentifierText(p, n.name)
                  ELSE IdentifierText(p, n.name)]

\* str::split_once("::"): the text before and after the first "::".
SplitOnce(s) ==
    LET at == {i \in 1 .. (Len(s) - 1) : s[i] = 58 /\ s[i + 1] = 58}
    IN  IF at = {}
        THEN None
        ELSE LET first == CHOOSE i \in at : \A j \in at : i <= j
             IN  Some([authority |-> SubSeq(s, 1, first - 1),
                       name |-> SubSeq(s, first + 2, Len(s))])

\* impl FromStr for Name
NameFromStr(p, s) ==
    LET split == SplitOnce(s)
    IN  IF IsSome(split)
        THEN NameNew(p, Unwrap(split).authority, Unwrap(split).name)
        ELSE LET name == IdentifierNew(p, s)
                 private == IdentifierPrivate(name.pool)
             IN  IF ~name.ret.ok THEN [pool |-> name.pool, ret |-> name.ret]
                 ELSE [pool |-> private.pool,
                       ret |-> ResultOk(MkName(private.token, name.ret.v))]

---------------------------------------------------------------------------
(* Rule and State of the style sheet (src/stylecs/src/style_sheet.rs) *)

\* Rule::for_id
RuleForId(id) ==
    [selector |-> [kind |-> "Id", id |-> id],
     hovered |-> None, focused |-> None, active |-> None,
     style |-> StyleNew]

\* Rule::when_hovered (b = TRUE) / Rule::when_not_hovered (b = FALSE)
RuleWhenHovered(r, b) == [r EXCEPT !.hovered = Some(b)]
\* Rule::when_focused / Rule::when_not_focused
RuleWhenFocused(r, b) == [r EXCEPT !.focused = Some(b)]
\* Rule::when_active / Rule::when_not_active
RuleWhenActive(r, b) == [r EXCEPT !.active = Some(b)]

\* State
States == [hovered : BOOLEAN, focused : BOOLEAN, active : BOOLEAN]

\* check_one_state
CheckOneState(condition, state) ==
    IF IsSome(condition) THEN Some(Unwrap(condition) = state) ELSE None

\* Option::or_else: the closure is called only when a is None.
OptionOrElse(a, b) == IF IsSome(a) THEN a ELSE b

\* Option::unwrap_or
OptionUnwrapOr(o, default) == IF IsSome(o) THEN Unwrap(o) ELSE default

\* Rule::applies
RuleApplies(r, state) ==
    OptionUnwrapOr(
        OptionOrElse(
            OptionOrElse(CheckOneState(r.hovered, state.hovered),
                         CheckOneState(r.focused, state.focused)),
            CheckOneState(r.active, state.active)),
        TRUE)

\* No Rule has been built.
NoRule == None

---------------------------------------------------------------------------
(* StyleSheet (src/stylecs/src/style_sheet.rs) and the Style it resolves   *)
(* (src/stylecs/src/style.rs): components is a HashMap from the TypeId of  *)
(* a component to its value.  A HashMap is a function whose domain is the  *)
(* set of its keys.                                                        *)

\* Id and Classes, the components the selectors read.
Id(id) == [ty |-> "Id", v |-> id]
Classes(classes) == [ty |-> "Classes", v |-> classes]

\* StyleComponent::should_be_inherited: true unless the type overrides it.
ShouldBeInherited(c) == c.ty \notin {"Id", "Classes"}

\* StyleComponent::merge: the default returns a clone of self.  (The styles
\* of the rules of the model hold neither Id nor Classes, so Classes::merge
\* is not reached.)
ComponentMerge(self, other) == self

\* Style::get::<T>
SheetStyleGet(s, ty) ==
    IF ty \in DOMAIN s.components THEN Some(s.components[ty]) ELSE None

\* Style::push / Style::with
SheetStyleWith(s, component) ==
    [components |-> HashMapInsert(s.components, component.ty, component)]

\* Style::merge_with(other, is_inheritance)
SheetStyleMergeWith(self, other, is_inheritance) ==
    LET self_types == DOMAIN self.components
        parent_types == DOMAIN other.components
        kept == {type_id \in self_types \cup parent_types :
                    \/ type_id \in self_types
                    \/ ~(is_inheritance
                         /\ ~ShouldBeInherited(other.components[type_id]))}
    IN  [components |->
            [type_id \in kept |->
                IF type_id \in self_types /\ type_id \in parent_types
                THEN IF is_inheritance
                     THEN self.components[type_id]
                     ELSE ComponentMerge(self.components[type_id],
                                         other.components[type_id])
                ELSE IF type_id \in self_types
                THEN self.components[type_id]
                ELSE other.components[type_id]]]

\* Rule::for_classes
RuleForClasses(classes) ==
    [selector |-> [kind |-> "Classes", classes |-> classes],
     hovered |-> None, focused |-> None, active |-> None,
     style |-> StyleNew]

\* Rule::with_styles
RuleWithStyles(r, s) == [r EXCEPT !.style = s]

\* StyleSheet::default
StyleSheetDefault ==
    [rules |-> <<>>, rules_by_id |-> EmptyMap, rules_by_class |-> EmptyMap]

\* map.entry(key).or_default().extend(indices)
EntryExtend(m, key, indices) ==
    [k \in (DOMAIN m) \cup {key} |->
        IF k = key
        THEN (IF key \in DOMAIN m THEN m[key] ELSE <<>>) \o indices
        ELSE m[k]]

\* The loop of StyleSheet::push over the classes of a selector, from class
\* i on.
RECURSIVE PushClasses(_, _, _, _)
PushClasses(by_class, classes, i, index) ==
    IF i > Len(classes)
    THEN by_class
    ELSE PushClasses(EntryExtend(by_class, classes[i], <<index>>), classes,
                     i + 1, index)

\* StyleSheet::push (and StyleSheet::with)
StyleSheetPush(s, r) ==
    LET index == Len(s.rules)
    IN  [rules |-> Append(s.rules, r),
         rules_by_id |->
            IF r.selector.kind = "Id"
            THEN EntryExtend(s.rules_by_id, r.selector.id, <<index>>)
            ELSE s.rules_by_id,
         rules_by_class |->
            IF r.selector.kind = "Classes"
            THEN PushClasses(s.rules_by_class, r.selector.classes, 1, index)
            ELSE s.rules_by_class]

\* index.iter().map(|&i| i + rule_offset)
Shifted(indices, rule_offset) ==
    [i \in 1 .. Len(indices) |-> indices[i] + rule_offset]

\* The loops of StyleSheet::merge_with over the entries of one map of self:
\* every entry extends the entry of combined under its own key, so the
\* order in which the HashMap yields them does not matter.
RECURSIVE ExtendShifted(_, _, _, _)
ExtendShifted(combined, from, keys, rule_offset) ==
    IF keys = {}
    THEN combined
    ELSE LET key == CHOOSE k \in keys : TRUE
         IN  ExtendShifted(
                 EntryExtend(combined, key, Shifted(from[key], rule_offset)),
                 from, keys \ {key}, rule_offset)

\* StyleSheet::merge_with: combined.rules is extended with the rules of
\* other, and with nothing else.
StyleSheetMergeWith(self, other) ==
    LET rule_offset == Len(other.rules)
    IN  [rules |-> other.rules,
         rules_by_id |->
            ExtendShifted(other.rules_by_id, self.rules_by_id,
                          DOMAIN self.rules_by_id, rule_offset),
         rules_by_class |->
            ExtendShifted(other.rules_by_class, self.rules_by_class,
                          DOMAIN self.rules_by_class, rule_offset)]

\* The set `rules` of effective_style_for: the rules listed under the Id of
\* the style and under each of its classes.
MatchingRules(s, a_style) ==
    LET id == SheetStyleGet(a_style, "Id")
        classes == SheetStyleGet(a_style, "Classes")
        by_id == IF IsSome(id) /\ Unwrap(id).v \in DOMAIN s.rules_by_id
                 THEN {s.rules_by_id[Unwrap(id).v][i] :
                          i \in 1 .. Len(s.rules_by_id[Unwrap(id).v])}
                 ELSE {}
        by_class ==
            IF IsSome(classes)
            THEN UNION {{s.rules_by_class[Unwrap(classes).v[c]][i] :
                            i \in 1 .. Len(s.rules_by_class[Unwrap(classes).v[c]])} :
                        c \in {c \in 1 .. Len(Unwrap(classes).v) :
                                  Unwrap(classes).v[c] \in DOMAIN s.rules_by_class}}
            ELSE {}
    IN  by_id \cup by_class

\* The loop of effective_style_for over the sorted indices, in reverse: the
\* highest index first.  self.rules[rule] panics when rule is not an index
\* of rules.
RECURSIVE ApplyRules(_, _, _, _, _)
ApplyRules(s, todo, a_style, state, applied) ==
    IF todo = {}
    THEN [style |-> a_style, applied |-> applied, panicked |-> FALSE]
    ELSE LET index == CHOOSE i \in todo : \A j \in todo : j <= i
         IN  IF index >= Len(s.rules)
             THEN [style |-> a_style, applied |-> applied, panicked |-> TRUE]
             ELSE IF RuleApplies(s.rules[index + 1], state)
             THEN ApplyRules(s, todo \ {index},
                             SheetStyleMergeWith(a_style,
                                                 s.rules[index + 1].style, FALSE),
                             state, Append(applied, index))
             ELSE ApplyRules(s, todo \ {index}, a_style, state, applied)

\* StyleSheet::effective_style_for: the style, the rules merged into it in
\* the order they were merged, and whether the call panicked.
EffectiveStyleFor(s, a_style, state) ==
    ApplyRules(s, MatchingRules(s, a_style), a_style, state, <<>>)

---------------------------------------------------------------------------
(* Inputs *)

\* The component values pushed into styles: those of the tests
\* (src/src/tests.rs) and of the example (src/examples/demo.rs).
StyleValues ==
    {FontSize(12), FontSize(18), TextColor(16711680), NotInheritable,
     PaddingUniform(5), PaddingUniform(10), PaddingVertical(10),
     PaddingHorizontal(10)}

StyleTypes == {c.ty : c \in StyleValues}

\* The values inserted into the sorted store.
ObjValues == {FontSize(1), FontSize(2)}

\* The Names of S in storage order.
RECURSIVE SortNames(_)
SortNames(S) ==
    IF S = {}
    THEN <<>>
    ELSE LET least == CHOOSE n \in S : \A m \in S : ~NameLess(m, n)
         IN  <<least>> \o SortNames(S \ {least})

\* The store a caller builds from Object::new() by inserting the Names of
\* keys one after the other, each with `value`.
RECURSIVE BuildObject(_, _)
BuildObject(keys, value) ==
    IF keys = <<>>
    THEN ObjectNew
    ELSE ObjInsert(BuildObject(SubSeq(keys, 1, Len(keys) - 1), value),
                   keys[Len(keys)], value).obj

\* The key sets of the stores SpecObject starts from: the first k Names in
\* storage order, for every k, and all Names but one.
InitKeySets ==
    LET all == SortNames(AllNames)
    IN  {{all[i] : i \in 1 .. k} : k \in 0 .. Len(all)}
            \cup {AllNames \ {h} : h \in AllNames}

\* Stores built by inserting their keys in ascending storage order.
InitObjects == {BuildObject(SortNames(S), FontSize(1)) : S \in InitKeySets}

\* The component values held by the stores SpecMerge starts from.
MergeValues ==
    {FontSize(12), FontSize(18), TextColor(16711680), NotInheritable,
     PaddingVertical(10), PaddingHorizontal(10)}

\* The sets of components a style can hold: no two of the same type.
MergeContents ==
    {S \in SUBSET MergeValues : \A x, y \in S : x.ty = y.ty => x = y}

\* The components of S in the storage order of their Names, or (when
\* ascending is false) in the opposite order.
RECURSIVE ComponentSeq(_, _)
ComponentSeq(S, ascending) ==
    IF S = {}
    THEN <<>>
    ELSE LET least == CHOOSE x \in S :
                          \A y \in S : ~NameLess(AnyName(y), AnyName(x))
             rest == ComponentSeq(S \ {least}, ascending)
         IN  IF ascending THEN <<least>> \o rest ELSE rest \o <<least>>

\* The orders in which a caller pushes components: ascending and
\* descending storage order.
MergeInputs == {ComponentSeq(S, asc) : S \in MergeContents, asc \in BOOLEAN}

\* The Object after inserting each component of `pushes` under its Name.
RECURSIVE ObjFromPushes(_)
ObjFromPushes(pushes) ==
    IF pushes = <<>>
    THEN ObjectNew
    ELSE ObjInsert(ObjFromPushes(SubSeq(pushes, 1, Len(pushes) - 1)),
                   AnyName(pushes[Len(pushes)]), pushes[Len(pushes)]).obj

\* The Style after pushing each component of `pushes`.
RECURSIVE StyleFromPushes(_)
StyleFromPushes(pushes) ==
    IF pushes = <<>>
    THEN StyleNew
    ELSE StylePush(StyleFromPushes(SubSeq(pushes, 1, Len(pushes) - 1)),
                   pushes[Len(pushes)])

---------------------------------------------------------------------------
(* The record of the last operation *)

Op(name, target, key, value, ret, pre, found, log) ==
    [op |-> name, target |-> target, key |-> key, value |-> value, ret |-> ret,
     pre |-> pre, found |-> found, log |-> log]

NoOp == Op("new", "", None, None, None, None, None, NoCalls)

---------------------------------------------------------------------------
(* Operations on the sorted stores *)

Store(t) == IF t = "obj" THEN obj ELSE cl

\* s.insert(key, value) on either store
ObjInsertAct ==
    \E t \in {"obj", "cl"}, key \in AllNames, value \in ObjValues :
        LET r == ObjInsert(Store(t), key, value)
        IN  /\ steps < MaxOps
            /\ obj' = IF t = "obj" THEN r.obj ELSE obj
            /\ cl' = IF t = "cl" THEN r.obj ELSE cl
            /\ last' = Op("insert", t, Some(key), Some(value), r.ret, Store(t),
                          FindKey(Store(t), key), NoCalls)
            /\ steps' = steps + 1
            /\ UNCHANGED <<loop, sheet, other_sheet, pool, rule, style, parent>>

\* s.get(&key)
ObjGetAct ==
    \E key \in AllNames :
        /\ steps < MaxOps
        /\ last' = Op("get", "obj", Some(key), None, ObjGet(obj, key), obj,
                      FindKey(obj, key), NoCalls)
        /\ steps' = steps + 1
        /\ UNCHANGED <<loop, sheet, other_sheet, pool, rule, obj, cl, style, parent>>

\* c = s.clone()
ObjCloneAct ==
    /\ steps < MaxOps
    /\ cl' = ObjClone(obj)
    /\ last' = Op("clone", "cl", None, None, None, cl, None, NoCalls)
    /\ steps' = steps + 1
    /\ UNCHANGED <<loop, sheet, other_sheet, pool, rule, obj, style, parent>>

\* The store that is not Store(t).
OtherStore(t) == IF t = "obj" THEN cl ELSE obj

\* s.merge_with_filter(&c, filter), or c.merge_with_filter(&s, filter)
ObjMergeAct ==
    \E t \in {"obj", "cl"}, f \in Filters :
        LET r == ObjMergeWithFilter(Store(t), OtherStore(t), f)
        IN  /\ steps < MaxOps
            /\ obj' = IF t = "obj" THEN r.obj ELSE obj
            /\ cl' = IF t = "cl" THEN r.obj ELSE cl
            /\ last' = Op("merge", t, None, Some(f), None, Store(t), None, r.log)
            /\ steps' = steps + 1
            /\ UNCHANGED <<loop, sheet, other_sheet, pool, rule, style, parent>>

InitObject ==
    /\ obj \in InitObjects
    /\ cl = ObjectNew
    /\ style = StyleNew
    /\ parent = StyleNew
    /\ last = NoOp
    /\ steps = 0
    /\ pool = StringPoolNew
    /\ rule = NoRule
    /\ sheet = StyleSheetDefault
    /\ other_sheet = StyleSheetDefault
    /\ loop = NoLoop

NextObject == ObjInsertAct \/ ObjGetAct \/ ObjCloneAct \/ ObjMergeAct

SpecObject == InitObject /\ [][NextObject]_vars

---------------------------------------------------------------------------
(* Operations on the styles *)

StyleOf(t) == IF t = "style" THEN style ELSE parent

\* Style::new()
StyleNewAct ==
    /\ style' = StyleNew
    /\ last' = Op("style_new", "style", None, None, None, style, None, NoCalls)
    /\ UNCHANGED <<loop, sheet, other_sheet, pool, rule, obj, cl, parent, steps>>

\* s.push(component) / s.with(component) on either style
StylePushAct ==
    \E t \in {"style", "parent"}, component \in StyleValues :
        LET r == StylePush(StyleOf(t), component)
        IN  /\ style' = IF t = "style" THEN r ELSE style
            /\ parent' = IF t = "parent" THEN r ELSE parent
            /\ last' = Op("push", t, Some(AnyName(component)), Some(component),
                          None, StyleOf(t), None, NoCalls)
            /\ UNCHANGED <<loop, sheet, other_sheet, pool, rule, obj, cl, steps>>

\* s.get::<T>()
StyleGetAct ==
    \E ty \in StyleTypes :
        /\ last' = Op("style_get", "style", Some(TypeName(ty)), None,
                      StyleGet(style, ty), style, None, NoCalls)
        /\ UNCHANGED <<loop, sheet, other_sheet, pool, rule, obj, cl, style, parent, steps>>

\* s = parent.clone()
StyleCloneAct ==
    /\ style' = StyleClone(parent)
    /\ last' = Op("style_clone", "style", None, None, None, style, None, NoCalls)
    /\ UNCHANGED <<loop, sheet, other_sheet, pool, rule, obj, cl, parent, steps>>

\* s = s.merged_with(&parent)
StyleMergedWithAct ==
    LET r == StyleMergedWith(style, parent)
    IN  /\ style' = r.style
        /\ last' = Op("merged_with", "style", None, None, None, style, None, r.log)
        /\ UNCHANGED <<loop, sheet, other_sheet, pool, rule, obj, cl, parent, steps>>

\* s = s.inherited_from(&parent)
StyleInheritedFromAct ==
    LET r == StyleInheritedFrom(style, parent)
    IN  /\ style' = r.style
        /\ last' = Op("inherited_from", "style", None, None, None, style, None, r.log)
        /\ UNCHANGED <<loop, sheet, other_sheet, pool, rule, obj, cl, parent, steps>>

Init ==
    /\ obj = ObjectNew
    /\ cl = ObjectNew
    /\ style = StyleNew
    /\ parent = StyleNew
    /\ last = NoOp
    /\ steps = 0
    /\ pool = StringPoolNew
    /\ rule = NoRule
    /\ sheet = StyleSheetDefault
    /\ other_sheet = StyleSheetDefault
    /\ loop = NoLoop

Next ==
    \/ StyleNewAct
    \/ StylePushAct
    \/ StyleGetAct
    \/ StyleCloneAct
    \/ StyleMergedWithAct
    \/ StyleInheritedFromAct

Spec == Init /\ [][Next]_vars

\* The two merge implementations, each applied to stores built by pushing
\* the same components: obj and style hold one content, cl and parent
\* another.
InitMerge ==
    \E a \in MergeInputs, b \in MergeInputs :
        /\ obj = ObjFromPushes(a)
        /\ cl = ObjFromPushes(b)
        /\ style = StyleFromPushes(a)
        /\ parent = StyleFromPushes(b)
        /\ last = NoOp
        /\ steps = 0
        /\ pool = StringPoolNew
        /\ rule = NoRule
        /\ sheet = StyleSheetDefault
        /\ other_sheet = StyleSheetDefault
        /\ loop = NoLoop

NextMerge == ObjMergeAct \/ StyleMergedWithAct \/ StyleInheritedFromAct

SpecMerge == InitMerge /\ [][NextMerge]_vars

---------------------------------------------------------------------------
(* Properties of the sorted store *)

\* The key array is strictly increasing under the store's key comparison.
StrictlyIncreasing(keys) ==
    \A i \in 1 .. (Len(keys) - 1) : KeyCmp(keys[i], keys[i + 1]) = "Less"

\* No two entries of the key array carry the same Name.
NoDuplicateNames(keys) ==
    \A i, j \in 1 .. Len(keys) : keys[i].key = keys[j].key => i = j

\* The Names a store holds.
ObjNames(o) == {o.ordered_keys[i].key : i \in 1 .. Len(o.ordered_keys)}

\* The store the last operation acted on, as it is now.
Target == Store(last.target)

\* C1: after any sequence of Object::insert calls from an empty store, also
\* one that grows the store past 16 entries, ordered_keys is strictly
\* increasing under the key comparison and no two entries carry the same
\* Name.  (obj is built and changed by Object::insert alone.)
C1_SortedAfterInserts ==
    StrictlyIncreasing(obj.ordered_keys) /\ NoDuplicateNames(obj.ordered_keys)

\* C2: after insert(key, V) a get for key returns a value equal to V, and a
\* get for every other Name returns what it returned before the insert, for
\* stores of every size.
C2_InsertGetRoundTrip ==
    last.op = "insert" =>
        /\ ObjGet(Target, Unwrap(last.key)) = last.value
        /\ \A n \in AllNames \ {Unwrap(last.key)} :
               ObjGet(Target, n) = ObjGet(last.pre, n)

\* C9: on a store whose ordered_keys is strictly increasing, find_key
\* returns Ok(the entry with the needle's Name) when the Name is present,
\* and otherwise Err(i) with i the absolute index in ordered_keys at which
\* inserting the needle keeps the array strictly increasing, for stores of
\* every size.
C9_FindKeyCorrect ==
    (last.op \in {"insert", "get"} /\ StrictlyIncreasing(last.pre.ordered_keys)) =>
        LET keys == last.pre.ordered_keys
            needle == Unwrap(last.key)
            r == last.found
        IN  IF needle \in ObjNames(last.pre)
            THEN r.ok /\ keys[r.at + 1].key = needle
            ELSE /\ ~r.ok
                 /\ r.at \in 0 .. Len(keys)
                 /\ StrictlyIncreasing(VecInsert(keys, r.at, MkKey(needle, 0)))

\* C10: Object::insert with a Name already in the store replaces the value
\* in that Name's slot, returns Some(displaced value) and leaves len, the
\* key order and every other entry unchanged; with a Name not in the store
\* it returns None, adds exactly one entry and leaves every existing
\* entry's value unchanged.
C10_InsertReplaceOrAdd ==
    last.op = "insert" =>
        LET pre == last.pre
            post == Target
            key == Unwrap(last.key)
            slots == {pre.ordered_keys[i].value_id :
                          i \in {j \in 1 .. ObjLen(pre) : pre.ordered_keys[j].key = key}}
        IN  IF key \in ObjNames(pre)
            THEN /\ \E id \in slots :
                        /\ last.ret = Some(pre.values[id])
                        /\ post.values = [pre.values EXCEPT ![id] = Unwrap(last.value)]
                 /\ post.ordered_keys = pre.ordered_keys
            ELSE /\ last.ret = None
                 /\ ObjLen(post) = ObjLen(pre) + 1
                 /\ Len(post.values) = Len(pre.values) + 1
                 /\ \A i \in 1 .. Len(pre.values) : post.values[i] = pre.values[i]
                 /\ \A i \in 1 .. ObjLen(pre) :
                        \E j \in 1 .. ObjLen(post) :
                            post.ordered_keys[j] = pre.ordered_keys[i]

\* C7: after c = s.clone(), c holds the same Names in the same key order
\* with equal values as s.  (Each store owns its arena, and a cloned value
\* is a new box: an operation on one store has no access to the other.)
C7_CloneEqual ==
    last.op = "clone" =>
        /\ ObjLen(cl) = ObjLen(obj)
        /\ \A i \in 1 .. ObjLen(obj) :
               i <= ObjLen(cl) =>
                   /\ cl.ordered_keys[i].key = obj.ordered_keys[i].key
                   /\ cl.values[cl.ordered_keys[i].value_id]
                          = obj.values[obj.ordered_keys[i].value_id]

---------------------------------------------------------------------------
(* Properties of the composition operators of Style *)

\* The Names the merge rule was invoked for in the last operation.
MergedNames == {last.log.merged[i] : i \in 1 .. Len(last.log.merged)}

C4_InheritedFromSelective ==
    last.op = "inherited_from" =>
        LET S == last.pre.components
            P == parent.components
        IN  StyleNames(style) =
                (DOMAIN S) \cup {n \in (DOMAIN P) \ (DOMAIN S) :
                                    P[n].ty \in {"FontSize", "TextColor"}}

\* C4 witness: Style::new().inherited_from(&parent) with a parent holding
\* an inheritable FontSize and a NotInheritable: the FontSize alone arrives.
C4_Witness ==
    /\ last.op = "inherited_from"
    /\ last.pre = StyleNew
    /\ parent = StylePush(StylePush(StyleNew, FontSize(12)), NotInheritable)
    /\ StyleGet(style, "FontSize") = Some(FontSize(12))
    /\ StyleGet(style, "NotInheritable") = None

\* The styles of the example program (src/examples/demo.rs).
DemoBody ==
    StylePush(StylePush(StylePush(StyleNew, FontSize(12)), PaddingUniform(5)),
              TextColor(16711680))
DemoHeading == StylePush(StyleNew, PaddingVertical(10))
DemoH1 == StylePush(StylePush(StyleNew, FontSize(18)), PaddingHorizontal(10))
DemoH1Merged == StylePush(StylePush(StyleNew, FontSize(18)), PaddingUniform(10))

\* C6: the style holding FontSize(18) and Padding{left: 10, right: 10},
\* merged_with the heading style holding Padding{top: 10, bottom: 10},
\* holds FontSize(18) and Padding with all four sides 10; the Padding merge
\* rule never overwrites a side that is set in self; then inherited_from
\* the body style (FontSize(12), Padding uniform 5, TextColor(0xFF0000))
\* leaves FontSize at 18 and Padding at uniform 10 and adds the TextColor.
C6_DemoScenario ==
    /\ (last.op = "merged_with" /\ last.pre = DemoH1 /\ parent = DemoHeading)
           => style = DemoH1Merged
    /\ (last.op = "merged_with"
            /\ StyleGet(last.pre, "Padding") # None
            /\ StyleGet(parent, "Padding") # None)
           => \A side \in {"left", "right", "top", "bottom"} :
                  Unwrap(StyleGet(last.pre, "Padding")).v[side] # None =>
                      Unwrap(StyleGet(style, "Padding")).v[side]
                          = Unwrap(StyleGet(last.pre, "Padding")).v[side]
    /\ (last.op = "inherited_from" /\ last.pre = DemoH1Merged /\ parent = DemoBody)
           => /\ StyleGet(style, "FontSize") = Some(FontSize(18))
              /\ StyleGet(style, "Padding") = Some(PaddingUniform(10))
              /\ StyleGet(style, "TextColor") = Some(TextColor(16711680))
              /\ StyleLen(style) = 3

\* C6 witness: the end of the scenario: the merged h1 style has inherited
\* from the body style.
C6_Witness ==
    /\ last.op = "inherited_from"
    /\ last.pre = DemoH1Merged
    /\ parent = DemoBody
    /\ StyleGet(style, "TextColor") = Some(TextColor(16711680))

\* C8: self-merge idempotence: S.clone().merged_with(&S) holds exactly the
\* Names of S with values equal to those of S, and the same len (every
\* component type of the model has a merge rule that leaves self unchanged
\* when merged with an equal value).
C8_SelfMergeIdempotent ==
    (last.op = "merged_with" /\ last.pre = StyleClone(parent)) =>
        /\ StyleNames(style) = StyleNames(parent)
        /\ \A n \in StyleNames(parent) : style.components[n] = parent.components[n]
        /\ StyleLen(style) = StyleLen(parent)

\* C8 witness: a style holding a partly set Padding and a FontSize was
\* cloned and the clone merged with the original.
C8_Witness ==
    /\ last.op = "merged_with"
    /\ last.pre = parent
    /\ parent = DemoH1
    /\ Len(last.log.merged) = 2

---------------------------------------------------------------------------
(* Properties of the inheritance merge, in both implementations *)

\* C5: in an inheritance merge, for a Name present in both self and parent
\* whose parent value reports inherited() == false, the type's merge rule
\* is not invoked and self's value for that Name after the call is exactly
\* the value it had before the call.  Stated of Style::inherited_from and
\* of Object::merge_with_filter under the filter AnyComponent::inherited.
C5_NoMergeWhenNotInherited ==
    /\ last.op = "inherited_from" =>
           \A n \in StyleNames(last.pre) \cap StyleNames(parent) :
               parent.components[n].ty \notin {"FontSize", "TextColor"} =>
                   /\ n \notin MergedNames
                   /\ style.components[n] = last.pre.components[n]
    /\ (last.op = "merge" /\ last.value = Some("inherited")) =>
           LET pre == last.pre
               other == OtherStore(last.target)
               post == Target
           IN  \A i \in 1 .. ObjLen(pre) :
                   LET n == pre.ordered_keys[i].key
                       id == pre.ordered_keys[i].value_id
                   IN  (/\ n \in ObjNames(other)
                        /\ \A j \in 1 .. ObjLen(other) :
                               other.ordered_keys[j].key = n =>
                                   other.values[other.ordered_keys[j].value_id].ty
                                       \notin {"FontSize", "TextColor"})
                       => /\ n \notin MergedNames
                          /\ post.values[id] = pre.values[id]
                          /\ \E k \in 1 .. ObjLen(post) :
                                 post.ordered_keys[k] = pre.ordered_keys[i]

\* C5 witness: self holds Padding{left, right}, the parent holds the not
\* inheritable Padding{top, bottom} and a FontSize that self holds too: the
\* inheritance merge invoked the merge rule for the FontSize alone and
\* self's Padding is as it was.
C5_Witness ==
    /\ last.op = "merge"
    /\ last.value = Some("inherited")
    /\ last.target = "obj"
    /\ ObjGet(last.pre, TypeName("Padding")) = Some(PaddingHorizontal(10))
    /\ ObjGet(cl, TypeName("Padding")) = Some(PaddingVertical(10))
    /\ ObjGet(obj, TypeName("Padding")) = Some(PaddingHorizontal(10))
    /\ last.log.merged = <<TypeName("FontSize")>>


---------------------------------------------------------------------------
(* Text inputs and the operations of stylecs-shared *)

\* The longest text the model draws byte by byte.
MaxTextLen == 3

\* Every sequence over S of length at most n.
SeqsUpTo(S, n) == UNION {[1 .. k -> S] : k \in 0 .. n}

\* The bytes the texts are drawn from: the first and the last byte of each
\* accepted range ('0' '9' 'A' 'Z' 'a' 'z'), '_', the bytes next to the
\* ranges ('/' ':' '@' '[' '`' '{') and a byte of a multi-byte character.
TextBytes == {48, 57, 65, 90, 97, 122, 95, 47, 58, 64, 91, 96, 123, 195}

\* The type names of the tests: "Test", "TestTest", "aFFITest"
\* (stylecs-shared), "FontSize", "NotInheritable" (src/src/tests.rs), and a
\* name that ends in an upper-case run, "TestFFI".
ExampleTexts ==
    {<<84, 101, 115, 116>>,
     <<84, 101, 115, 116, 84, 101, 115, 116>>,
     <<97, 70, 70, 73, 84, 101, 115, 116>>,
     <<70, 111, 110, 116, 83, 105, 122, 101>>,
     <<78, 111, 116, 73, 110, 104, 101, 114, 105, 116, 97, 98, 108, 101>>,
     <<84, 101, 115, 116, 70, 70, 73>>}

TextInputs == SeqsUpTo(TextBytes, MaxTextLen) \cup ExampleTexts

\* A caller holds a text.
InitText ==
    /\ obj = ObjectNew
    /\ cl = ObjectNew
    /\ style = StyleNew
    /\ parent = StyleNew
    /\ last \in {Op("text", "", None, Some(name), None, None, None, NoCalls) :
                    name \in TextInputs}
    /\ steps = 0
    /\ pool = StringPoolNew
    /\ rule = NoRule
    /\ sheet = StyleSheetDefault
    /\ other_sheet = StyleSheetDefault
    /\ loop = NoLoop

\* validate_identifier(name)
ValidateIdentifierAct ==
    LET name == Unwrap(last.value)
    IN  /\ last.op = "text"
        /\ last' = Op("validate_identifier", "", None, Some(name),
                      ValidateIdentifier(name), None, None, NoCalls)
        /\ UNCHANGED <<loop, sheet, other_sheet, obj, cl, style, parent, steps, pool, rule>>

\* Identifier::validate(name)
IdentifierValidateAct ==
    LET name == Unwrap(last.value)
    IN  /\ last.op = "text"
        /\ last' = Op("identifier_validate", "", None, Some(name),
                      IdentifierValidate(name), None, None, NoCalls)
        /\ UNCHANGED <<loop, sheet, other_sheet, obj, cl, style, parent, steps, pool, rule>>

\* pascal_case_to_snake_case(name)
PascalCaseToSnakeCaseAct ==
    LET name == Unwrap(last.value)
    IN  /\ last.op = "text"
        /\ last' = Op("pascal_case_to_snake_case", "", None, Some(name),
                      PascalCaseToSnakeCase(name), None, None, NoCalls)
        /\ UNCHANGED <<loop, sheet, other_sheet, obj, cl, style, parent, steps, pool, rule>>

NextText ==
    \/ ValidateIdentifierAct
    \/ IdentifierValidateAct
    \/ PascalCaseToSnakeCaseAct

SpecText == InitText /\ [][NextText]_vars

---------------------------------------------------------------------------
(* Properties of the texts *)

\* The bytes the claim allows: ASCII letters, ASCII digits, underscore.
AllowedBytes == (65 .. 90) \cup (97 .. 122) \cup (48 .. 57) \cup {95}
AllAllowed(s) == \A i \in 1 .. Len(s) : s[i] \in AllowedBytes

WordBoundaryBefore(s, i) ==
    /\ i > 1
    /\ IsAsciiUppercase(s[i])
    /\ \/ IsAsciiLowercase(s[i - 1]) \/ IsAsciiDigit(s[i - 1])
       \/ /\ IsAsciiUppercase(s[i - 1])
          /\ i < Len(s)
          /\ IsAsciiLowercase(s[i + 1])

RECURSIVE ClaimedSnakeFrom(_, _)
ClaimedSnakeFrom(s, i) ==
    IF i > Len(s)
    THEN <<>>
    ELSE (IF WordBoundaryBefore(s, i) THEN <<95>> ELSE <<>>)
         \o <<ToAsciiLowercase(s[i])>> \o ClaimedSnakeFrom(s, i + 1)

ClaimedSnake(s) ==
    IF AllAllowed(s) THEN ResultOk(ClaimedSnakeFrom(s, 1))
    ELSE ResultErr(InvalidIdentifier)

\* C19: pascal_case_to_snake_case lower-cases every letter and inserts an
\* underscore only at a word boundary, so that a name ending in an
\* upper-case run keeps that run as one word; a text with a byte outside
\* the alphabet yields InvalidIdentifier.
C19_SnakeCaseWordBoundaries ==
    last.op = "pascal_case_to_snake_case" =>
        last.ret = ClaimedSnake(Unwrap(last.value))


---------------------------------------------------------------------------
(* Operations on Identifiers and Names *)

\* The longest text given to Identifier::new and Name::new.
MaxIdLen == 1
\* The longest text given to Name::from_str.
MaxParseLen == 4
\* The number of strings the pool may hold.
MaxPool == 2
\* The number of rules the two style sheets hold together.
MaxRules == 2

\* The texts given to Identifier::new and Name::new: over 'a', '_' and ':'.
IdTexts == SeqsUpTo({97, 95, 58}, MaxIdLen)
\* The texts given to Name::from_str: over 'a' and ':'.
ParseTexts == SeqsUpTo({97, 58}, MaxParseLen)

\* The Identifiers that exist: one for each pooled string.
Identifiers == 0 .. (Len(pool) - 1)

\* Identifier::new(name)
IdentifierNewAct ==
    \E name \in IdTexts :
        LET r == IdentifierNew(pool, name)
        IN  /\ Len(r.pool) <= MaxPool
            /\ pool' = r.pool
            /\ last' = Op("identifier_new", "", None, Some(name), r.ret, pool,
                          None, NoCalls)
            /\ UNCHANGED <<loop, sheet, other_sheet, obj, cl, style, parent, steps, rule>>

\* Identifier::private()
IdentifierPrivateAct ==
    LET r == IdentifierPrivate(pool)
    IN  /\ Len(r.pool) <= MaxPool
        /\ pool' = r.pool
        /\ last' = Op("identifier_private", "", None, Some(PrivateText),
                      ResultOk(r.token), pool, None, NoCalls)
        /\ UNCHANGED <<loop, sheet, other_sheet, obj, cl, style, parent, steps, rule>>

\* Name::new(authority, name)
NameNewAct ==
    \E authority \in IdTexts, name \in IdTexts :
        LET r == NameNew(pool, authority, name)
        IN  /\ Len(r.pool) <= MaxPool
            /\ pool' = r.pool
            /\ last' = Op("name_new", "", None,
                          Some([authority |-> authority, name |-> name]),
                          r.ret, pool, None, NoCalls)
            /\ UNCHANGED <<loop, sheet, other_sheet, obj, cl, style, parent, steps, rule>>

\* s.parse::<Name>()
NameFromStrAct ==
    \E s \in ParseTexts :
        LET r == NameFromStr(pool, s)
        IN  /\ Len(r.pool) <= MaxPool
            /\ pool' = r.pool
            /\ last' = Op("from_str", "", None, Some(s), r.ret, pool, None,
                          NoCalls)
            /\ UNCHANGED <<loop, sheet, other_sheet, obj, cl, style, parent, steps, rule>>

\* n.to_string().parse::<Name>(), n a Name made of two Identifiers
NameToStringParseAct ==
    \E authority \in Identifiers, name \in Identifiers :
        LET n == MkName(authority, name)
            shown == NameDisplay(pool, n)
            r == NameFromStr(shown.pool, shown.text)
        IN  /\ Len(r.pool) <= MaxPool
            /\ pool' = r.pool
            /\ last' = Op("to_string_parse", "", Some(n), Some(shown.text),
                          r.ret, pool, None, NoCalls)
            /\ UNCHANGED <<loop, sheet, other_sheet, obj, cl, style, parent, steps, rule>>

NextNames ==
    \/ IdentifierNewAct
    \/ IdentifierPrivateAct
    \/ NameNewAct
    \/ NameFromStrAct
    \/ NameToStringParseAct

SpecNames == Init /\ [][NextNames]_vars

---------------------------------------------------------------------------
(* Properties of Identifiers and Names *)

\* The operations that pool strings.
PoolOps ==
    {"identifier_new", "identifier_private", "name_new", "from_str",
     "to_string_parse"}

\* C12: two Identifiers are the same pooled token exactly when they were
\* created from equal text (no text is pooled twice, and a pooled string
\* keeps its token), the Identifier created for a text refers to that text,
\* and creating one for a text the pool already holds returns the token the
\* text has and adds nothing to the pool.
C12_InterningIdempotent ==
    /\ \A i, j \in 1 .. Len(pool) : pool[i] = pool[j] => i = j
    /\ last.op \in PoolOps =>
          /\ Len(last.pre) <= Len(pool)
          /\ SubSeq(pool, 1, Len(last.pre)) = last.pre
    /\ (last.op = "identifier_new" /\ last.ret.ok) =>
          LET name == Unwrap(last.value)
          IN  /\ IdentifierText(pool, last.ret.v) = name
              /\ (\E i \in 1 .. Len(last.pre) : last.pre[i] = name) =>
                    /\ pool = last.pre
                    /\ IdentifierText(last.pre, last.ret.v) = name

\* Identifier::new was called for a text the pool already held, after
\* another text had been pooled.
C12_Witness ==
    /\ last.op = "identifier_new"
    /\ last.ret.ok
    /\ Len(last.pre) = 2
    /\ pool = last.pre
    /\ last.ret.v = 0

\* The texts "a" or "a::n" whose parts are within the alphabet.
WellFormedNameText(s) ==
    \/ AllAllowed(s)
    \/ \E k \in 1 .. (Len(s) - 1) :
          /\ s[k] = 58
          /\ s[k + 1] = 58
          /\ AllAllowed(SubSeq(s, 1, k - 1))
          /\ AllAllowed(SubSeq(s, k + 2, Len(s)))

\* The number of places of s where "::" starts.
Separators(s) == {k \in 1 .. (Len(s) - 1) : s[k] = 58 /\ s[k + 1] = 58}

C18_NameTextRoundTrip ==
    last.op = "to_string_parse" =>
        LET n == Unwrap(last.key)
            authority == IdentifierText(last.pre, n.authority)
            name == IdentifierText(last.pre, n.name)
        IN  /\ last.ret.ok
            /\ last.ret.v = n
            /\ Unwrap(last.value) = IF authority = PrivateText
                                    THEN name
                                    ELSE authority \o <<58, 58>> \o name

\* A Name of another authority than "_" was shown and parsed back.
C18_Witness ==
    /\ last.op = "to_string_parse"
    /\ IdentifierText(last.pre, Unwrap(last.key).authority) = <<97>>
    /\ Unwrap(last.key).authority # Unwrap(last.key).name
    /\ last.ret.ok


---------------------------------------------------------------------------
(* The order of the keys of the sorted store *)

\* impl Ord for NameKey: the name pointers first, the authority pointers
\* when the names are the same pooled string.
NameKeyCmp(a, b) ==
    LET byName == PtrCmp(a.name, b.name)
    IN  IF byName = "Equal" THEN PtrCmp(a.authority, b.authority) ELSE byName

\* C13: the order in which the sorted store keeps and searches its keys
\* compares the local-name token first and the authority token only when
\* the local-name tokens are identical: find_key compares the needle that
\* way with every key, and after an insert the keys are increasing in that
\* order.  (Stores of at most ScanWindow entries, which find_key scans from
\* the start.)
C13_StorageOrderLocalNameFirst ==
    (last.op = "insert" /\ Len(last.pre.ordered_keys) < ScanWindow) =>
        LET keys == Target.ordered_keys
            before == last.pre.ordered_keys
        IN  /\ \A i \in 1 .. Len(before) :
                  KeyPartialCmp(before[i], Unwrap(last.key))
                      = NameKeyCmp(before[i].key, Unwrap(last.key))
            /\ \A i \in 1 .. (Len(keys) - 1) :
                  NameKeyCmp(keys[i].key, keys[i + 1].key) = "Less"


---------------------------------------------------------------------------
(* Enumeration of the stores *)

\* The Names the enumerated stores are given.
FewNames == {MkName(0, 0), MkName(0, 1), MkName(1, 0)}

\* Every order of the elements of S.
Orders(S) ==
    {p \in [1 .. Cardinality(S) -> S] :
        \A i, j \in 1 .. Cardinality(S) : p[i] = p[j] => i = j}

\* s.insert(key, value), key one of a few Names
ObjInsertFewAct ==
    \E t \in {"obj", "cl"}, key \in FewNames, value \in ObjValues :
        LET r == ObjInsert(Store(t), key, value)
        IN  /\ steps < MaxOps
            /\ obj' = IF t = "obj" THEN r.obj ELSE obj
            /\ cl' = IF t = "cl" THEN r.obj ELSE cl
            /\ last' = Op("insert", t, Some(key), Some(value), r.ret, Store(t),
                          FindKey(Store(t), key), NoCalls)
            /\ steps' = steps + 1
            /\ UNCHANGED <<loop, sheet, other_sheet, pool, rule, style, parent>>

\* s.values() / s.into_values(), collected
ObjValuesAct ==
    \E t \in {"obj", "cl"} :
        /\ last' = Op("values", t, None, None, ObjValuesIter(Store(t)),
                      Store(t), None, NoCalls)
        /\ UNCHANGED <<loop, sheet, other_sheet, obj, cl, style, parent, steps, pool, rule>>

\* style.iter() / style.into_iter(), collected: a HashMap yields its values
\* in an order the hasher decides.
StyleIterAct ==
    \E order \in Orders(StyleNames(style)) :
        /\ last' = Op("style_iter", "style", None, None,
                      [i \in 1 .. Len(order) |-> style.components[order[i]]],
                      style, None, NoCalls)
        /\ UNCHANGED <<loop, sheet, other_sheet, obj, cl, style, parent, steps, pool, rule>>

\* Two empty sorted stores and a style a caller has filled.
InitValues ==
    \E a \in MergeInputs :
        /\ obj = ObjectNew
        /\ cl = ObjectNew
        /\ style = StyleFromPushes(a)
        /\ parent = StyleNew
        /\ last = NoOp
        /\ steps = 0
        /\ pool = StringPoolNew
        /\ rule = NoRule
        /\ sheet = StyleSheetDefault
        /\ other_sheet = StyleSheetDefault
        /\ loop = NoLoop

NextValues ==
    \/ ObjInsertFewAct
    \/ ObjMergeAct
    \/ ObjValuesAct
    \/ StyleIterAct

SpecValues == InitValues /\ [][NextValues]_vars

\* The values of a sorted store in the order of its keys.
ValuesInKeyOrder(o) ==
    [i \in 1 .. Len(o.ordered_keys) |-> o.values[o.ordered_keys[i].value_id]]

\* The values of a style in the storage order of their Names.
StyleValuesInStorageOrder(s) ==
    LET names == SortNames(StyleNames(s))
    IN  [i \in 1 .. Len(names) |-> s.components[names[i]]]

\* C14 as stated: enumerating a store yields every stored entry exactly once
\* and in storage order, the order of ordered_keys.
C14_EnumerationInStorageOrder ==
    /\ last.op = "values" => last.ret = ValuesInKeyOrder(Target)
    /\ last.op = "style_iter" => last.ret = StyleValuesInStorageOrder(style)

\* C14 as amended: enumerating a store yields every stored entry exactly
\* once (every slot of the arena is the slot of exactly one key, every Name
\* of a style is met once, with its value); Object::values yields the
\* entries in the order of the arena, in which an insert of a new Name adds
\* its value last and a replacement keeps the slot of the value it replaces.
C14_EnumerationYieldsEachEntryOnce ==
    /\ last.op = "values" =>
          LET keys == Target.ordered_keys
          IN  /\ Len(last.ret) = Len(keys)
              /\ \A slot \in 1 .. Len(last.ret) :
                    Cardinality({i \in 1 .. Len(keys) : keys[i].value_id = slot}) = 1
              /\ \A i \in 1 .. Len(keys) :
                    last.ret[keys[i].value_id] = Target.values[keys[i].value_id]
    /\ last.op = "insert" =>
          IF IsSome(last.ret)
          THEN /\ Len(ObjValuesIter(Target)) = Len(ObjValuesIter(last.pre))
               /\ \E slot \in 1 .. Len(ObjValuesIter(Target)) :
                     /\ ObjValuesIter(Target)[slot] = Unwrap(last.value)
                     /\ ObjValuesIter(last.pre)[slot] = Unwrap(last.ret)
                     /\ \A other \in 1 .. Len(ObjValuesIter(Target)) :
                           other # slot =>
                               ObjValuesIter(Target)[other]
                                   = ObjValuesIter(last.pre)[other]
          ELSE ObjValuesIter(Target)
                   = Append(ObjValuesIter(last.pre), Unwrap(last.value))
    /\ last.op = "style_iter" =>
          /\ Len(last.ret) = StyleLen(style)
          /\ \A n \in StyleNames(style) :
                \E i \in 1 .. Len(last.ret) :
                    /\ last.ret[i] = style.components[n]
                    /\ AnyName(last.ret[i]) = n

\* A store of two entries whose Names were inserted in descending storage
\* order was enumerated.
C14_Witness ==
    /\ last.op = "values"
    /\ Len(last.ret) = 2
    /\ last.ret # ValuesInKeyOrder(Target)


---------------------------------------------------------------------------
(* Styles holding component types that report the same Name *)

\* Component values of two types that both report the Name font_size, and
\* of a type with a Name of its own.
CollidingValues ==
    {FontSize(12), FontSize(18), Points(12), Points(7), NotInheritable}

CollidingTypes == {c.ty : c \in CollidingValues}

\* s.push(component) / s.with(component) on either style
StylePushCollidingAct ==
    \E t \in {"style", "parent"}, component \in CollidingValues :
        LET r == StylePush(StyleOf(t), component)
        IN  /\ style' = IF t = "style" THEN r ELSE style
            /\ parent' = IF t = "parent" THEN r ELSE parent
            /\ last' = Op("push", t, Some(AnyName(component)), Some(component),
                          None, StyleOf(t), None, NoCalls)
            /\ UNCHANGED <<loop, sheet, other_sheet, pool, rule, obj, cl, steps>>

\* s.get::<T>()
StyleGetCollidingAct ==
    \E ty \in CollidingTypes :
        /\ last' = Op("style_get", "style", Some(TypeName(ty)), Some(ty),
                      StyleGet(style, ty), style, None, NoCalls)
        /\ UNCHANGED <<loop, sheet, other_sheet, pool, rule, obj, cl, style, parent, steps>>

\* s.get_by_name(&name)
StyleGetByNameAct ==
    \E ty \in CollidingTypes :
        /\ last' = Op("get_by_name", "style", Some(TypeName(ty)), None,
                      StyleGetByName(style, TypeName(ty)), style, None, NoCalls)
        /\ UNCHANGED <<loop, sheet, other_sheet, pool, rule, obj, cl, style, parent, steps>>

\* A panic ends the program: nothing is called after it.
NextCollision ==
    /\ ~last.log.panicked
    /\ \/ StyleNewAct
       \/ StylePushCollidingAct
       \/ StyleGetCollidingAct
       \/ StyleGetByNameAct
       \/ StyleCloneAct
       \/ StyleMergedWithAct
       \/ StyleInheritedFromAct

SpecCollision == Init /\ [][NextCollision]_vars

\* C15: no sequence of new, push/with, get, get_by_name, clone, merged_with
\* and inherited_from calls reaches the panic "incorrect type" of
\* AnyComponent::merge_with.
C15_NoIncorrectTypePanic == ~last.log.panicked

\* C16: pushing a value of a type T2 into a style that holds a value of
\* another type T1 under the same Name leaves one entry under that Name,
\* holding the T2 value (len unchanged); get::<T1>() is then None and
\* get::<T2>() the pushed value.
C16_NameCollisionLastWriteWins ==
    /\ (/\ last.op = "push"
        /\ Unwrap(last.key) \in StyleNames(last.pre)
        /\ last.pre.components[Unwrap(last.key)].ty # Unwrap(last.value).ty) =>
          LET after == StyleOf(last.target)
              T1 == last.pre.components[Unwrap(last.key)].ty
              T2 == Unwrap(last.value).ty
          IN  /\ StyleLen(after) = StyleLen(last.pre)
              /\ StyleNames(after) = StyleNames(last.pre)
              /\ StyleGetByName(after, Unwrap(last.key)) = last.value
              /\ StyleGet(after, T1) = None
              /\ StyleGet(after, T2) = last.value
              /\ \A n \in StyleNames(after) \ {Unwrap(last.key)} :
                    after.components[n] = last.pre.components[n]
    /\ (/\ last.op = "style_get"
        /\ Unwrap(last.key) \in StyleNames(style)) =>
          last.ret = IF style.components[Unwrap(last.key)].ty = Unwrap(last.value)
                     THEN Some(style.components[Unwrap(last.key)])
                     ELSE None

\* A Points value was pushed into a style of two entries that held a
\* FontSize value under the same Name.
C16_Witness ==
    /\ last.op = "push"
    /\ Unwrap(last.value).ty = "Points"
    /\ StyleLen(last.pre) = 2
    /\ Unwrap(last.key) \in StyleNames(last.pre)
    /\ last.pre.components[Unwrap(last.key)].ty = "FontSize"


---------------------------------------------------------------------------
(* Rules of the style sheet *)

\* Rule::for_id("a")
RuleForIdAct ==
    /\ rule' = Some(RuleForId("a"))
    /\ last' = Op("for_id", "", None, None, None, rule, None, NoCalls)
    /\ UNCHANGED <<loop, sheet, other_sheet, obj, cl, style, parent, steps, pool>>

\* rule.when_hovered() / rule.when_not_hovered()
RuleWhenHoveredAct ==
    \E b \in BOOLEAN :
        /\ IsSome(rule)
        /\ rule' = Some(RuleWhenHovered(Unwrap(rule), b))
        /\ last' = Op("when_hovered", "", None, Some(b), None, rule, None, NoCalls)
        /\ UNCHANGED <<loop, sheet, other_sheet, obj, cl, style, parent, steps, pool>>

\* rule.when_focused() / rule.when_not_focused()
RuleWhenFocusedAct ==
    \E b \in BOOLEAN :
        /\ IsSome(rule)
        /\ rule' = Some(RuleWhenFocused(Unwrap(rule), b))
        /\ last' = Op("when_focused", "", None, Some(b), None, rule, None, NoCalls)
        /\ UNCHANGED <<loop, sheet, other_sheet, obj, cl, style, parent, steps, pool>>

\* rule.when_active() / rule.when_not_active()
RuleWhenActiveAct ==
    \E b \in BOOLEAN :
        /\ IsSome(rule)
        /\ rule' = Some(RuleWhenActive(Unwrap(rule), b))
        /\ last' = Op("when_active", "", None, Some(b), None, rule, None, NoCalls)
        /\ UNCHANGED <<loop, sheet, other_sheet, obj, cl, style, parent, steps, pool>>

\* rule.applies(&state)
RuleAppliesAct ==
    \E state \in States :
        /\ IsSome(rule)
        /\ last' = Op("applies", "", None, Some(state),
                      Some(RuleApplies(Unwrap(rule), state)), rule, None, NoCalls)
        /\ UNCHANGED <<loop, sheet, other_sheet, obj, cl, style, parent, steps, pool, rule>>

NextRule ==
    \/ RuleForIdAct
    \/ RuleWhenHoveredAct
    \/ RuleWhenFocusedAct
    \/ RuleWhenActiveAct
    \/ RuleAppliesAct

SpecRule == Init /\ [][NextRule]_vars

\* A condition the rule specifies equals the flag of the state; a condition
\* the rule leaves unspecified is met by every state.
ConditionMet(condition, flag) == IsSome(condition) => Unwrap(condition) = flag

\* C20: Rule::applies(state) is true exactly when every condition the rule
\* specifies (each of hovered, focused, active that is Some(b)) equals the
\* flag of state; a rule with no condition applies to every state.
C20_RuleAppliesWhenEveryConditionMet ==
    last.op = "applies" =>
        LET r == Unwrap(rule)
            state == Unwrap(last.value)
        IN  Unwrap(last.ret) <=> /\ ConditionMet(r.hovered, state.hovered)
                                 /\ ConditionMet(r.focused, state.focused)
                                 /\ ConditionMet(r.active, state.active)


---------------------------------------------------------------------------
(* Style sheets *)

\* The rules pushed into the sheets of the model: none of them has a
\* condition, so each applies to every state.
SheetRules ==
    {RuleWithStyles(RuleForId("x"), SheetStyleWith(StyleNew, TextColor(n))) :
        n \in 1 .. 2}
    \cup {RuleWithStyles(RuleForClasses(classes),
                         SheetStyleWith(StyleNew, TextColor(n))) :
            classes \in {<<"a">>, <<"a", "b">>}, n \in 3 .. 4}

\* The styles the sheets of the model resolve.
SheetQueries ==
    {SheetStyleWith(StyleNew, Id("x")),
     SheetStyleWith(StyleNew, Classes(<<"a">>)),
     SheetStyleWith(StyleNew, Classes(<<"a", "b">>)),
     SheetStyleWith(SheetStyleWith(StyleNew, Id("x")), Classes(<<"a">>))}

\* sheet.push(rule) / other.push(rule)
StyleSheetPushAct ==
    \E r \in SheetRules, t \in {"sheet", "other"} :
        /\ Len(sheet.rules) + Len(other_sheet.rules) < MaxRules
        /\ sheet' = IF t = "sheet" THEN StyleSheetPush(sheet, r) ELSE sheet
        /\ other_sheet' = IF t = "other" THEN StyleSheetPush(other_sheet, r)
                          ELSE other_sheet
        /\ last' = Op("sheet_push", t, None, Some(r), None,
                      Some(IF t = "sheet" THEN sheet ELSE other_sheet), None,
                      NoCalls)
        /\ UNCHANGED <<loop, obj, cl, style, parent, steps, pool, rule>>

\* sheet = sheet.merge_with(&other)
StyleSheetMergeWithAct ==
    /\ steps < MaxOps
    /\ steps' = steps + 1
    /\ sheet' = StyleSheetMergeWith(sheet, other_sheet)
    /\ last' = Op("sheet_merge_with", "sheet", None, None, None, Some(sheet),
                  None, NoCalls)
    /\ UNCHANGED <<loop, other_sheet, obj, cl, style, parent, pool, rule>>

\* sheet.effective_style_for(style, &state)
EffectiveStyleForAct ==
    \E a_style \in SheetQueries, state \in States :
        /\ last' = Op("effective_style_for", "sheet", None, Some(a_style),
                      Some(EffectiveStyleFor(sheet, a_style, state)), None,
                      None, NoCalls)
        /\ UNCHANGED <<loop, sheet, other_sheet, obj, cl, style, parent, steps, pool,
                       rule>>

NextSheet ==
    \/ StyleSheetPushAct
    \/ StyleSheetMergeWithAct
    \/ EffectiveStyleForAct

SpecSheet == Init /\ [][NextSheet]_vars

\* The rules of a sheet, as a set.
RulesOf(s) == {s.rules[i] : i \in 1 .. Len(s.rules)}

\* The indices a map of a sheet lists.
IndicesOf(m) == UNION {{m[k][i] : i \in 1 .. Len(m[k])} : k \in DOMAIN m}

\* C21: a.merge_with(&b) returns a sheet that contains every rule of a and
\* every rule of b, and resolving a style that matches rules of both merges
\* the rules of a into it before the rules of b.
C21_MergeContainsBothSheets ==
    last.op = "sheet_merge_with" =>
        /\ RulesOf(Unwrap(last.pre)) \subseteq RulesOf(sheet)
        /\ RulesOf(other_sheet) \subseteq RulesOf(sheet)
        /\ \A a_style \in SheetQueries, state \in States :
              LET resolved == EffectiveStyleFor(sheet, a_style, state)
                  from_a == RulesOf(Unwrap(last.pre)) \ RulesOf(other_sheet)
                  from_b == RulesOf(other_sheet) \ RulesOf(Unwrap(last.pre))
              IN  /\ ~resolved.panicked
                  /\ \A i, j \in 1 .. Len(resolved.applied) :
                        /\ sheet.rules[resolved.applied[i] + 1] \in from_a
                        /\ sheet.rules[resolved.applied[j] + 1] \in from_b
                        => i < j

\* C22: effective_style_for merges a rule with a Classes selector into a
\* style only when the Classes component of the style contains every class
\* of the selector.
C22_ClassesRuleNeedsAllClasses ==
    last.op = "effective_style_for" =>
        LET resolved == Unwrap(last.ret)
            classes == SheetStyleGet(Unwrap(last.value), "Classes")
        IN  \A i \in 1 .. Len(resolved.applied) :
                LET r == sheet.rules[resolved.applied[i] + 1]
                IN  r.selector.kind = "Classes" =>
                        /\ IsSome(classes)
                        /\ \A c \in 1 .. Len(r.selector.classes) :
                              \E d \in 1 .. Len(Unwrap(classes).v) :
                                  Unwrap(classes).v[d] = r.selector.classes[c]

\* C29: every rule index listed in rules_by_id and rules_by_class is
\* smaller than rules.len(), and effective_style_for does not index rules
\* out of bounds.
C29_RuleIndicesInBounds ==
    /\ \A i \in IndicesOf(sheet.rules_by_id) \cup IndicesOf(sheet.rules_by_class) :
          i < Len(sheet.rules)
    /\ \A i \in IndicesOf(other_sheet.rules_by_id)
                \cup IndicesOf(other_sheet.rules_by_class) :
          i < Len(other_sheet.rules)
    /\ last.op = "effective_style_for" => ~Unwrap(last.ret).panicked

---------------------------------------------------------------------------
(* Growth of the stores *)

\* C23: membership only grows: every Name a store holds before an insert
\* or a merge it still holds after it, and its len does not decrease.
C23_MembershipOnlyGrows ==
    [][last'.op \in {"insert", "merge"} =>
          LET before == Store(last'.target)
              after == IF last'.target = "obj" THEN obj' ELSE cl'
          IN  /\ last'.pre = before
              /\ ObjNames(before) \subseteq ObjNames(after)
              /\ ObjLen(before) <= ObjLen(after)]_vars

\* A merge into a store of more than 16 entries that adds a Name to it.
C23_Witness ==
    /\ last.op = "merge"
    /\ ObjLen(last.pre) > ScanWindow
    /\ ObjNames(last.pre) \subseteq ObjNames(Target)
    /\ ObjNames(Target) # ObjNames(last.pre)

\* The facade Style: every Name a style holds before push, merged_with or
\* inherited_from it still holds after it, and its len does not decrease.
StyleMembershipOnlyGrows ==
    [][last'.op \in {"push", "merged_with", "inherited_from"} =>
          LET before == StyleOf(last'.target)
              after == IF last'.target = "style" THEN style' ELSE parent'
          IN  /\ StyleNames(before) \subseteq StyleNames(after)
              /\ StyleLen(before) <= StyleLen(after)]_vars

---------------------------------------------------------------------------
(* The slots of the arena *)

\* Every key of o refers to a slot of the arena of o, no two keys refer to
\* the same slot, and the arena holds as many values as o has keys.
SlotsIntact(o) ==
    /\ \A i \in 1 .. Len(o.ordered_keys) :
          o.ordered_keys[i].value_id \in 1 .. Len(o.values)
    /\ \A i, j \in 1 .. Len(o.ordered_keys) :
          o.ordered_keys[i].value_id = o.ordered_keys[j].value_id => i = j
    /\ Len(o.values) = Len(o.ordered_keys)

\* C24: after any sequence of Object::insert and Object::merge_with_filter
\* calls every entry of ordered_keys refers to a live slot of the arena, no
\* two entries refer to the same slot, and the arena holds exactly as many
\* values as there are keys.
C24_SlotIntegrity == SlotsIntact(obj) /\ SlotsIntact(cl)

\* An insert that replaced the value of a key of a store of more than 16
\* entries.
C24_Witness ==
    /\ last.op = "insert"
    /\ IsSome(last.ret)
    /\ ObjLen(last.pre) > ScanWindow
    /\ Target.values # last.pre.values
    /\ Target.ordered_keys = last.pre.ordered_keys

---------------------------------------------------------------------------
(* The order of the keys after a merge *)

\* C25: when the key arrays of self and of other are strictly increasing
\* with no duplicate Names, the key array of self is strictly increasing
\* with no duplicate Names after self.merge_with_filter(other, f), whatever
\* the filter and however the two key arrays interleave.
C25_MergeKeepsSorted ==
    (/\ last.op = "merge"
     /\ StrictlyIncreasing(last.pre.ordered_keys)
     /\ NoDuplicateNames(last.pre.ordered_keys)
     /\ StrictlyIncreasing(OtherStore(last.target).ordered_keys)
     /\ NoDuplicateNames(OtherStore(last.target).ordered_keys))
        => /\ StrictlyIncreasing(Target.ordered_keys)
           /\ NoDuplicateNames(Target.ordered_keys)

\* A merge of two sorted stores that spliced an entry of other in front of
\* a key of self and pushed another entry of other at the end.
C25_Witness ==
    /\ last.op = "merge"
    /\ StrictlyIncreasing(last.pre.ordered_keys)
    /\ StrictlyIncreasing(OtherStore(last.target).ordered_keys)
    /\ \E i, j \in 1 .. ObjLen(Target) :
          /\ i < j
          /\ Target.ordered_keys[i].key \notin ObjNames(last.pre)
          /\ Target.ordered_keys[j].key \in ObjNames(last.pre)
    /\ Target.ordered_keys[ObjLen(Target)].key \notin ObjNames(last.pre)
    /\ StrictlyIncreasing(Target.ordered_keys)

---------------------------------------------------------------------------
(* Termination of the loops of the sorted store *)

\* The Names of the stores the loops walk, in storage order (the authority
\* first, then the local name).
LoopNames ==
    [i \in 1 .. MaxKeys |->
        MkName((i - 1) \div NumLocalNames, (i - 1) % NumLocalNames)]

\* The value a store holds under a Name: every store holds a value of the
\* same type under the same Name.
LoopValue(name) == IF name.name % 2 = 0 THEN FontSize(1) ELSE NotInheritable

\* The store a caller builds from Object::new() by inserting the first k
\* Names of keys one after the other.  (The test on ObjLen makes TLC build
\* the store of k - 1 Names before it evaluates the insert.)
RECURSIVE BuildLoopObject(_, _)
BuildLoopObject(keys, k) ==
    IF k = 0
    THEN ObjectNew
    ELSE LET built == BuildLoopObject(keys, k - 1)
         IN  IF ObjLen(built) >= 0
             THEN ObjInsert(built, keys[k], LoopValue(keys[k])).obj
             ELSE built

\* The stores find_key searches and the merge walks: the first k Names, for
\* every k.
LoopObjects == {BuildLoopObject(LoopNames, k) : k \in 0 .. MaxKeys}

\* The stores merged into them: the first, a middle and the last Name, a
\* Name greater than all, and every subset of those.
LoopOthers ==
    LET picked == {LoopNames[1], LoopNames[MaxKeys \div 2], LoopNames[MaxKeys],
                   MkName(MaxKeys, 0)}
    IN  {BuildLoopObject(SortNames(S), Cardinality(S)) : S \in SUBSET picked}

\* The Names find_key is asked for: those of the stores and one greater
\* than all of them.
LoopNeedles == {LoopNames[i] : i \in 1 .. MaxKeys} \cup {MkName(MaxKeys, 0)}

InitLoops ==
    /\ obj \in LoopObjects
    /\ cl \in LoopOthers
    /\ style = StyleNew
    /\ parent = StyleNew
    /\ last = NoOp
    /\ steps = 0
    /\ pool = StringPoolNew
    /\ rule = NoRule
    /\ sheet = StyleSheetDefault
    /\ other_sheet = StyleSheetDefault
    /\ loop = NoLoop

\* obj.find_key(&needle) is entered
FindKeyBeginAct ==
    \E needle \in LoopNeedles :
        /\ loop = NoLoop
        /\ loop' = FindKeyBegin(obj, needle)
        /\ UNCHANGED <<obj, cl, style, parent, last, steps, pool, rule, sheet,
                       other_sheet>>

\* one iteration of the loop of find_key
FindKeyIterAct ==
    /\ loop.fn = "find_key"
    /\ ~loop.done
    /\ loop' = FindKeyIter(loop)
    /\ UNCHANGED <<obj, cl, style, parent, last, steps, pool, rule, sheet,
                   other_sheet>>

\* obj.merge_with_filter(&cl, filter) is entered
MergeBeginAct ==
    \E f \in Filters :
        /\ loop = NoLoop
        /\ loop' = MergeBegin(obj, cl, f)
        /\ UNCHANGED <<obj, cl, style, parent, last, steps, pool, rule, sheet,
                       other_sheet>>

\* one iteration of the while loop of merge_with_filter, or its final loop;
\* the call returns after the final loop and obj is what it made of self
MergeIterAct ==
    /\ loop.fn = "merge"
    /\ ~loop.done
    /\ loop' = MergeIter(loop)
    /\ obj' = IF loop'.done THEN loop'.self ELSE obj
    /\ UNCHANGED <<cl, style, parent, last, steps, pool, rule, sheet,
                   other_sheet>>

NextLoops ==
    \/ FindKeyBeginAct
    \/ FindKeyIterAct
    \/ MergeBeginAct
    \/ MergeIterAct

\* A loop that can iterate does: the program runs on.
SpecLoops ==
    InitLoops /\ [][NextLoops]_vars /\ WF_vars(FindKeyIterAct \/ MergeIterAct)

\* Every index the loops hold is an index of the array it is used on.
LoopInBounds ==
    /\ ~loop.panicked
    /\ loop.fn = "find_key" =>
          /\ 0 <= loop.min
          /\ loop.min <= loop.max
          /\ loop.max <= Len(loop.keys)
    /\ loop.fn = "merge" =>
          /\ loop.self_index <= ObjLen(loop.self)
          /\ loop.other_index <= ObjLen(loop.other)

\* A binary-search step shrinks the range of find_key; an iteration of the
\* while loop of the merge advances self_index or other_index, and what is
\* left of the two key arrays gets shorter although self may grow.
LoopAdvances ==
    /\ (loop.fn = "find_key" /\ loop'.fn = "find_key" /\ ~loop'.done) =>
          /\ loop.max - loop.min > ScanWindow
          /\ loop'.max - loop'.min < loop.max - loop.min
    /\ (loop.fn = "merge" /\ loop'.fn = "merge" /\ ~loop'.done) =>
          /\ \/ loop'.self_index > loop.self_index
             \/ loop'.other_index > loop.other_index
          /\ (ObjLen(loop'.self) - loop'.self_index)
                 + (ObjLen(loop'.other) - loop'.other_index)
             < (ObjLen(loop.self) - loop.self_index)
                 + (ObjLen(loop.other) - loop.other_index)

FindKeyHalvedTwice ==
    /\ loop.fn = "find_key"
    /\ loop.done
    /\ IsSome(loop.ret)
    /\ Len(loop.keys) > 2 * ScanWindow + 1
    /\ loop.max - loop.min < Len(loop.keys) \div 2

\* The loops, run one iteration at a time, return what FindKey and
\* ObjMergeWithFilter return.
LoopsAgree ==
    [][/\ (loop'.fn = "find_key" /\ loop'.done) =>
             loop'.ret = Some(FindKey(obj, loop'.needle))
       /\ (loop.fn = "merge" /\ ~loop.done /\ loop'.done) =>
             /\ obj' = ObjMergeWithFilter(obj, cl, loop.f).obj
             /\ loop'.log = ObjMergeWithFilter(obj, cl, loop.f).log]_vars

---------------------------------------------------------------------------
(* The calls one merge makes *)

\* The entries of a sorted store without duplicate Names, as a map from
\* Name to value.
ObjEntries(o) ==
    [n \in ObjNames(o) |->
        o.values[o.ordered_keys[CHOOSE i \in 1 .. ObjLen(o) :
                                    o.ordered_keys[i].key = n].value_id]]

\* log is what the claim allows of a merge of `other` (a map from Name to
\* value) into a store that held self_names, under filter f: one
\* evaluation of the filter for every entry of other, on the value of
\* other, and one call of the merge rule for every Name of both whose
\* value in other the filter accepts.
CallsAsClaimed(log, self_names, other, f) ==
    /\ Len(log.filtered) = Cardinality(DOMAIN other)
    /\ {log.filtered[i].key : i \in 1 .. Len(log.filtered)} = DOMAIN other
    /\ \A i \in 1 .. Len(log.filtered) :
          log.filtered[i].key \in DOMAIN other
              => log.filtered[i].on = other[log.filtered[i].key]
    /\ \A i, j \in 1 .. Len(log.merged) : log.merged[i] = log.merged[j] => i = j
    /\ {log.merged[i] : i \in 1 .. Len(log.merged)}
           = {n \in self_names \cap DOMAIN other : Filter(f, other[n])}

\* C27: during one merge_with_filter call, of either implementation, the
\* filter is evaluated exactly once for every entry of other and never on a
\* value of self, and the merge rule is invoked exactly once for each Name
\* present in both stores whose value in other the filter accepted, and
\* never otherwise.
C27_FilterAndMergeOncePerEntry ==
    /\ last.op = "merge" =>
          CallsAsClaimed(last.log, ObjNames(last.pre),
                         ObjEntries(OtherStore(last.target)), Unwrap(last.value))
    /\ last.op = "merged_with" =>
          CallsAsClaimed(last.log, StyleNames(last.pre), parent.components, "all")
    /\ last.op = "inherited_from" =>
          CallsAsClaimed(last.log, StyleNames(last.pre), parent.components,
                         "inherited")

---------------------------------------------------------------------------
(* The two implementations of the merge *)

\* The style that holds the entries of a sorted store without duplicate
\* Names.
StyleHolding(o) == [components |-> ObjEntries(o)]

\* A sorted store a caller filled by inserting every Name but one in
\* storage order and that one last, and a second store of one entry.
InitAgree ==
    \E h \in AllNames, x \in AllNames :
        /\ obj = ObjInsert(BuildObject(SortNames(AllNames \ {h}), FontSize(1)),
                           h, FontSize(1)).obj
        /\ cl = BuildObject(<<x>>, FontSize(2))
        /\ style = StyleNew
        /\ parent = StyleNew
        /\ last = NoOp
        /\ steps = 0
        /\ pool = StringPoolNew
        /\ rule = NoRule
        /\ sheet = StyleSheetDefault
        /\ other_sheet = StyleSheetDefault
        /\ loop = NoLoop

SpecAgree == InitAgree /\ [][ObjMergeAct]_vars

\* C28: the sorted-store merge and the hash-map merge agree: applied to
\* stores holding the same contents, with the same filter, they leave the
\* same Names with equal values and invoke the merge rule on the same
\* Names.
C28_MergeImplementationsAgree ==
    (/\ last.op = "merge"
     /\ NoDuplicateNames(last.pre.ordered_keys)
     /\ NoDuplicateNames(OtherStore(last.target).ordered_keys))
        => LET hashed == StyleMergeWithFilter(StyleHolding(last.pre),
                                              StyleHolding(OtherStore(last.target)),
                                              Unwrap(last.value))
           IN  /\ NoDuplicateNames(Target.ordered_keys)
               /\ ObjEntries(Target) = hashed.style.components
               /\ MergedNames = {hashed.log.merged[i] :
                                    i \in 1 .. Len(hashed.log.merged)}

---------------------------------------------------------------------------
(* The Name an entry is stored under *)

\* Every entry of the style is stored under the Name its value reports.
StoredUnderOwnName(s) ==
    \A n \in StyleNames(s) : AnyName(s.components[n]) = n

\* Every entry of the sorted store is stored under the Name its value
\* reports.
ObjStoredUnderOwnName(o) ==
    \A i \in 1 .. ObjLen(o) :
        AnyName(o.values[o.ordered_keys[i].value_id]) = o.ordered_keys[i].key

\* C30: in every style reachable through new, push/with, clone, merged_with
\* and inherited_from each entry is stored under exactly the Name its value
\* reports through name(), and an entry a merge copied in from the other
\* style is stored under the Name it has there.
C30_StoredUnderReportedName ==
    /\ StoredUnderOwnName(style)
    /\ StoredUnderOwnName(parent)
    /\ last.op \in {"merged_with", "inherited_from"} =>
          \A n \in StyleNames(style) \ StyleNames(last.pre) :
              /\ n \in StyleNames(parent)
              /\ style.components[n] = parent.components[n]

\* A merge copied into the style an entry whose type declares an authority,
\* beside an entry the style had pushed itself.
C30_Witness ==
    /\ last.op \in {"merged_with", "inherited_from"}
    /\ \E n \in StyleNames(style) \ StyleNames(last.pre) :
          n.authority # PrivateToken
    /\ \E n \in StyleNames(last.pre) \cap StyleNames(parent) :
          style.components[n] # parent.components[n]

\* The sorted store: what a merge copies in keeps its Name.
ObjMergeKeepsNames ==
    (/\ last.op = "merge"
     /\ ObjStoredUnderOwnName(last.pre)
     /\ ObjStoredUnderOwnName(OtherStore(last.target)))
        => ObjStoredUnderOwnName(Target)

====
